---- MODULE Spec2Model ----
(***************************************************************************)
(* Model of RF-docs-MCP-server/rf_docs_server.py: the section extractor,   *)
(* the embedded-JSON brace scanner, the keyword normalizer, the index      *)
(* builder (fetch_rf_documentation) and the query functions.               *)
(*                                                                         *)
(* Text is modelled as a sequence of one-character strings.  Python's      *)
(* 0-based positions are shifted by one: position p of the model is        *)
(* html_content[p-1] of the source.                                        *)
(***************************************************************************)
EXTENDS Integers, Sequences, FiniteSets, TLC

VARIABLES
    \* ---- _parse_library_keywords: the brace scan (lines 199-241)
    html_content,   \* the text being scanned
    start_pos,      \* position of the anchor's opening brace (0: not set)
    i,              \* loop variable of the for loop
    depth,
    in_string,
    escape,
    libdoc_json,    \* the extracted span (<<>> until the scan breaks)
    scan_pc,        \* "search" | "loop" | "found" | "unterminated" | "notfound"
    \* ---- DocumentationParser (lines 58-110)
    events,          \* the tag and text events HTMLParser.feed delivers, in order
    ev_pos,          \* the next event to deliver
    sections,
    current_section,
    current_content,
    in_section,
    section_level,
    sec_pc,          \* "feed" | "done"
    \* ---- _parse_library_keywords: the keyword loop (lines 246-280)
    kw_list,         \* libdoc_data.get("keywords", [])
    kw_pos,          \* the next record of the for loop
    keywords,        \* the dict being filled, in insertion order
    norm_pc,         \* "loop" | "done"
    \* ---- search_rf_documentation (lines 400-435)
    index_sections,  \* index_data.get("sections", [])
    query,
    max_results,
    sec_i,           \* the next section of the for loop of line 407
    results,
    search_ret,      \* the value returned
    search_pc,       \* "loop" | "done"
    \* ---- the cache directory (lines 47-50)
    docs_file,       \* DOCS_FILE: the primary document, as its event stream
    lib_files,       \* CACHE_DIR/<library>_<version>.html, per library
    index_file,      \* INDEX_FILE: the Section Index
    keywords_index,  \* KEYWORDS_INDEX: the Keyword Index
    now,             \* datetime.now(): a clock that ticks at lines 166 and 363
    \* ---- fetch_rf_documentation (lines 294-378) and its callers
    pc,              \* "idle" | "guide" | "libs" | "returned" | "done"
    op,              \* the exposed operation in progress, with its arguments
    force_refresh,
    fetch_results,   \* the dict results
    all_keywords,    \* in insertion order: <<[library, keywords], ...>>
    total_keywords,
    lib_i,           \* the next library of the for loop of line 337
    requests,        \* the urlopen calls of the run in progress
    calls,           \* <<caller, callee>>: the calls of the operation in progress, in order
    ret,             \* the value the exposed operation returned (pc = "done")
    \* ---- history
    runs,            \* the runs of fetch_rf_documentation started so far
    run_start,       \* what the run in progress (or the last run) found: RunStart
    prev_run,        \* of the run before it: [ran, force_refresh, cached]
    \* ---- two server processes on one cache directory
    writer,          \* the process in INDEX_FILE.write_text (line 173): [pc, old, new]
    reader           \* the process in search_rf_documentation: [pc, op, seen, ret]

scanVars == <<html_content, start_pos, i, depth, in_string, escape, libdoc_json, scan_pc>>

parserVars == <<events, ev_pos, sections, current_section, current_content, in_section,
                section_level, sec_pc>>

normVars == <<kw_list, kw_pos, keywords, norm_pc>>

searchVars == <<index_sections, query, max_results, sec_i, results, search_ret, search_pc>>

fileVars == <<docs_file, lib_files, index_file, keywords_index, now>>

fetchVars == <<force_refresh, fetch_results, all_keywords, total_keywords, lib_i, requests>>

callVars == <<pc, op, calls, ret>>

historyVars == <<runs, run_start, prev_run>>

serverVars == <<fileVars, fetchVars, callVars, historyVars>>

raceVars == <<writer, reader>>

(***************************************************************************)
(* Bounds of the model.                                                    *)
(***************************************************************************)
MaxBody == 4
MaxEvents == 5
MaxRecords == 3
MaxSections == 4
MaxResultsArg == 3
NumLibraries == 2
MaxRuns == 3

(***************************************************************************)
(* Generic helpers on sequences.                                           *)
(***************************************************************************)
SeqsUpTo(S, n) == UNION {[1..k -> S] : k \in 0..n}

Min(S) == CHOOSE x \in S : \A y \in S : x <= y

\* Python's None
None == [none |-> TRUE]

\* d.get(key, default)
Get(d, key, default) == IF key \in DOMAIN d THEN d[key] ELSE default

\* str.strip(): leading and trailing white space removed
RECURSIVE LStrip(_)
LStrip(t) == IF t # <<>> /\ t[1] \in {" ", "\n", "\t"} THEN LStrip(Tail(t)) ELSE t

RECURSIVE RStrip(_)
RStrip(t) ==
    IF t # <<>> /\ t[Len(t)] \in {" ", "\n", "\t"}
    THEN RStrip(SubSeq(t, 1, Len(t) - 1)) ELSE t

Strip(t) == RStrip(LStrip(t))

\* sep.join(parts)
RECURSIVE Join(_, _)
Join(parts, sep) ==
    IF parts = <<>> THEN <<>>
    ELSE IF Len(parts) = 1 THEN parts[1]
    ELSE parts[1] \o sep \o Join(Tail(parts), sep)

(***************************************************************************)
(* re.search(r'libdoc\s*=\s*\{', html_content)                             *)
(***************************************************************************)
LIBDOC == <<"l", "i", "b", "d", "o", "c">>

IsSpace(c) == c \in {" ", "\n", "\t"}

\* the first position >= p that holds no whitespace (Len(t)+1 when none)
RECURSIVE SkipSpace(_, _)
SkipSpace(t, p) ==
    IF p <= Len(t) /\ IsSpace(t[p]) THEN SkipSpace(t, p + 1) ELSE p

\* the anchor matched at position p: the position of its "{", or 0
AnchorAt(t, p) ==
    IF p + 5 <= Len(t) /\ SubSeq(t, p, p + 5) = LIBDOC
    THEN LET q == SkipSpace(t, p + 6) IN
         IF q <= Len(t) /\ t[q] = "="
         THEN LET r == SkipSpace(t, q + 1) IN
              IF r <= Len(t) /\ t[r] = "{" THEN r ELSE 0
         ELSE 0
    ELSE 0

\* start_match.end() - 1 of the leftmost match (shifted by one), or 0: no match
AnchorSearch(t) ==
    LET hits == {p \in 1..Len(t) : AnchorAt(t, p) # 0} IN
    IF hits = {} THEN 0 ELSE AnchorAt(t, Min(hits))

(***************************************************************************)
(* One iteration of the scan loop, lines 214-236, on the scanner state     *)
(* st = [depth, in_string, escape, found].                                 *)
(***************************************************************************)
ScanState0 == [depth |-> 0, in_string |-> FALSE, escape |-> FALSE, found |-> FALSE]

\* ScanChar with the string test of line 228 left out: braces inside string
\* literals are counted
ScanCharCountingStrings(st, char) ==
    IF st.escape THEN [st EXCEPT !.escape = FALSE]
    ELSE IF char = "\\" THEN [st EXCEPT !.escape = TRUE]
    ELSE IF char = "\"" THEN [st EXCEPT !.in_string = ~st.in_string]
    ELSE IF char = "{" THEN [st EXCEPT !.depth = st.depth + 1]
    ELSE IF char = "}"
         THEN [st EXCEPT !.depth = st.depth - 1, !.found = (st.depth - 1 = 0)]
         ELSE st

\* ScanChar with a stop test of depth < 0 in place of depth == 0 (line 233)
ScanCharStoppingBelowZero(st, char) ==
    IF st.escape THEN [st EXCEPT !.escape = FALSE]
    ELSE IF char = "\\" THEN [st EXCEPT !.escape = TRUE]
    ELSE IF char = "\"" THEN [st EXCEPT !.in_string = ~st.in_string]
    ELSE IF ~st.in_string
         THEN IF char = "{" THEN [st EXCEPT !.depth = st.depth + 1]
              ELSE IF char = "}"
                   THEN [st EXCEPT !.depth = st.depth - 1,
                                   !.found = (st.depth - 1 < 0)]
                   ELSE st
         ELSE st

\* ScanChar without lines 217-223: a character after a backslash is scanned
\* like any other
ScanCharIgnoringEscape(st, char) ==
    IF char = "\"" THEN [st EXCEPT !.in_string = ~st.in_string]
    ELSE IF ~st.in_string
         THEN IF char = "{" THEN [st EXCEPT !.depth = st.depth + 1]
              ELSE IF char = "}"
                   THEN [st EXCEPT !.depth = st.depth - 1,
                                   !.found = (st.depth - 1 = 0)]
                   ELSE st
         ELSE st

\* lines 216-236: one iteration
ScanChar(st, char) ==
    IF st.escape THEN [st EXCEPT !.escape = FALSE]
    ELSE IF char = "\\" THEN [st EXCEPT !.escape = TRUE]
    ELSE IF char = "\"" /\ ~st.escape THEN [st EXCEPT !.in_string = ~st.in_string]
    ELSE IF ~st.in_string
         THEN IF char = "{" THEN [st EXCEPT !.depth = st.depth + 1]
              ELSE IF char = "}"
                   THEN [st EXCEPT !.depth = st.depth - 1,
                                   !.found = (st.depth - 1 = 0)]
                   ELSE st
         ELSE st

(***************************************************************************)
(* The scan of _parse_library_keywords, one loop iteration per step.       *)
(***************************************************************************)
\* lines 199-211: the anchor search and the initialisation of the scan
ScanSearch ==
    /\ scan_pc = "search"
    /\ LET s == AnchorSearch(html_content) IN
       IF s = 0
       THEN /\ scan_pc' = "notfound"
            /\ UNCHANGED <<start_pos, i, depth, in_string, escape>>
       ELSE /\ scan_pc' = "loop"
            /\ start_pos' = s
            /\ i' = s
            /\ depth' = ScanState0.depth
            /\ in_string' = ScanState0.in_string
            /\ escape' = ScanState0.escape
    /\ UNCHANGED <<html_content, libdoc_json>>

\* lines 213-236: one iteration of the for loop
ScanLoop ==
    /\ scan_pc = "loop"
    /\ i <= Len(html_content)
    /\ LET st == ScanChar([depth |-> depth, in_string |-> in_string,
                           escape |-> escape, found |-> FALSE], html_content[i]) IN
       /\ depth' = st.depth
       /\ in_string' = st.in_string
       /\ escape' = st.escape
       /\ IF st.found
          THEN /\ libdoc_json' = SubSeq(html_content, start_pos, i)
               /\ scan_pc' = "found"
               /\ i' = i
          ELSE /\ i' = i + 1
               /\ UNCHANGED <<libdoc_json, scan_pc>>
    /\ UNCHANGED <<html_content, start_pos>>

\* lines 237-241: the for loop's else branch
ScanExhausted ==
    /\ scan_pc = "loop"
    /\ i > Len(html_content)
    /\ scan_pc' = "unterminated"
    /\ UNCHANGED <<html_content, start_pos, i, depth, in_string, escape, libdoc_json>>

(***************************************************************************)
(* DocumentationParser, lines 58-110.  An event is what HTMLParser.feed    *)
(* hands to one handler: [type |-> "start", tag, id], [type |-> "end",     *)
(* tag] or [type |-> "data", data].  The parser state is the record p of   *)
(* the object's fields.                                                    *)
(***************************************************************************)
HeadingTags == {"h1", "h2", "h3", "h4"}

\* int(tag[1])
HeadingLevel(tag) ==
    CASE tag = "h1" -> 1 [] tag = "h2" -> 2 [] tag = "h3" -> 3 [] tag = "h4" -> 4

\* current_section = None
NoSection == [id |-> "", level |-> 0, title |-> <<>>, content |-> <<>>]

\* lines 61-67
ParserInit ==
    [sections |-> <<>>, current_section |-> NoSection, current_content |-> <<>>,
     in_section |-> FALSE, section_level |-> 0]

\* lines 76-77 and 108-109: the open section is closed and appended
SaveSection(p) ==
    IF p.current_section # NoSection
    THEN Append(p.sections,
                [p.current_section EXCEPT
                    !.content = Strip(Join(p.current_content, <<" ">>))])
    ELSE p.sections

\* handle_starttag with line 88 left out: the fragments of the closed section
\* stay in the accumulator
handle_starttag_keeping_content(p, tag, id) ==
    IF tag \in HeadingTags
    THEN [sections |-> SaveSection(p),
          current_section |-> [id |-> id, level |-> HeadingLevel(tag),
                               title |-> <<>>, content |-> <<>>],
          current_content |-> p.current_content,
          in_section |-> TRUE,
          section_level |-> HeadingLevel(tag)]
    ELSE p

\* lines 69-89
handle_starttag(p, tag, id) ==
    IF tag \in HeadingTags
    THEN [sections |-> SaveSection(p),
          current_section |-> [id |-> id, level |-> HeadingLevel(tag),
                               title |-> <<>>, content |-> <<>>],
          current_content |-> <<>>,
          in_section |-> TRUE,
          section_level |-> HeadingLevel(tag)]
    ELSE p

\* lines 91-93
handle_endtag(p, tag) ==
    IF tag \in HeadingTags THEN [p EXCEPT !.in_section = FALSE] ELSE p

\* handle_data without the test of line 99: text is collected although no
\* section is open
handle_data_before_heading(p, data) ==
    IF p.in_section /\ p.current_section # NoSection
    THEN [p EXCEPT !.current_section.title = Strip(data)]
    ELSE IF Strip(data) # <<>>
         THEN [p EXCEPT !.current_content = Append(@, Strip(data))]
         ELSE p

\* handle_data that keeps the first title text of a heading
handle_data_first_title(p, data) ==
    IF p.in_section /\ p.current_section # NoSection
    THEN IF p.current_section.title = <<>>
         THEN [p EXCEPT !.current_section.title = Strip(data)]
         ELSE p
    ELSE IF p.current_section # NoSection
         THEN IF Strip(data) # <<>>
              THEN [p EXCEPT !.current_content = Append(@, Strip(data))]
              ELSE p
         ELSE p

\* lines 95-103
handle_data(p, data) ==
    IF p.in_section /\ p.current_section # NoSection
    THEN [p EXCEPT !.current_section.title = Strip(data)]
    ELSE IF p.current_section # NoSection
         THEN IF Strip(data) # <<>>
              THEN [p EXCEPT !.current_content = Append(@, Strip(data))]
              ELSE p
         ELSE p

\* lines 105-110: the list get_sections returns
get_sections(p) == SaveSection(p)

\* HTMLParser.feed: one event to its handler
FeedEvent(p, ev) ==
    CASE ev.type = "start" -> handle_starttag(p, ev.tag, ev.id)
      [] ev.type = "end" -> handle_endtag(p, ev.tag)
      [] ev.type = "data" -> handle_data(p, ev.data)

\* lines 159-161: parser.feed(html_content) and parser.get_sections()
RECURSIVE FeedAll(_, _)
FeedAll(p, evs) == IF evs = <<>> THEN p ELSE FeedAll(FeedEvent(p, Head(evs)), Tail(evs))

ParseSections(evs) == get_sections(FeedAll(ParserInit, evs))

ParserState ==
    [sections |-> sections, current_section |-> current_section,
     current_content |-> current_content, in_section |-> in_section,
     section_level |-> section_level]

SetParserState(p) ==
    /\ sections' = p.sections
    /\ current_section' = p.current_section
    /\ current_content' = p.current_content
    /\ in_section' = p.in_section
    /\ section_level' = p.section_level

\* one start tag delivered to handle_starttag
FeedStarttag ==
    /\ sec_pc = "feed"
    /\ ev_pos <= Len(events)
    /\ events[ev_pos].type = "start"
    /\ SetParserState(handle_starttag(ParserState, events[ev_pos].tag, events[ev_pos].id))
    /\ ev_pos' = ev_pos + 1
    /\ UNCHANGED <<events, sec_pc>>

\* one end tag delivered to handle_endtag
FeedEndtag ==
    /\ sec_pc = "feed"
    /\ ev_pos <= Len(events)
    /\ events[ev_pos].type = "end"
    /\ SetParserState(handle_endtag(ParserState, events[ev_pos].tag))
    /\ ev_pos' = ev_pos + 1
    /\ UNCHANGED <<events, sec_pc>>

\* one text run delivered to handle_data
FeedData ==
    /\ sec_pc = "feed"
    /\ ev_pos <= Len(events)
    /\ events[ev_pos].type = "data"
    /\ SetParserState(handle_data(ParserState, events[ev_pos].data))
    /\ ev_pos' = ev_pos + 1
    /\ UNCHANGED <<events, sec_pc>>

\* the call of get_sections after the whole document was fed (line 161)
GetSections ==
    /\ sec_pc = "feed"
    /\ ev_pos > Len(events)
    /\ sections' = get_sections(ParserState)
    /\ sec_pc' = "done"
    /\ UNCHANGED <<events, ev_pos, current_section, current_content, in_section,
                   section_level>>

(***************************************************************************)
(* The keyword loop of _parse_library_keywords, lines 246-280.  A decoded  *)
(* record kw_data is [name, args, shortdoc, source, lineno], args a        *)
(* sequence of [repr |-> text]; a key the JSON object lacks has the        *)
(* default of its .get (an empty text or list).  source and lineno are     *)
(* opaque values.  A dict is the sequence of its values in insertion       *)
(* order; a keyword record carries its key as name.                        *)
(***************************************************************************)
\* the backquote character, which a TLA+ string cannot hold
BACKTICK == "'"

\* text.replace(old, new) for a one-character old
RECURSIVE Replace(_, _, _)
Replace(t, old, new) ==
    IF t = <<>> THEN <<>>
    ELSE (IF t[1] = old THEN new ELSE <<t[1]>>) \o Replace(Tail(t), old, new)

\* the first position >= p of t that holds character c, or 0
RECURSIVE Find(_, _, _)
Find(t, c, p) ==
    IF p > Len(t) THEN 0 ELSE IF t[p] = c THEN p ELSE Find(t, c, p + 1)

\* re.sub(r'<[^>]+>', '', t), from position p on
RECURSIVE StripTagsFrom(_, _)
StripTagsFrom(t, p) ==
    IF p > Len(t) THEN <<>>
    ELSE LET q == Find(t, ">", p + 1) IN
         IF t[p] = "<" /\ q >= p + 2
         THEN StripTagsFrom(t, q + 1)
         ELSE <<t[p]>> \o StripTagsFrom(t, p + 1)

\* re.sub(the pattern of line 263, r'\1', t), from position p on
RECURSIVE UnwrapCodeFrom(_, _)
UnwrapCodeFrom(t, p) ==
    IF p > Len(t) THEN <<>>
    ELSE LET tick == Find(t, BACKTICK, p + 2)      \* the end of the run of [^BACKTICK]
             r == IF tick = 0 THEN Len(t) ELSE tick - 1 IN
         IF /\ p + 1 <= Len(t) /\ t[p] = BACKTICK /\ t[p + 1] = BACKTICK
            /\ r >= p + 2
            /\ r + 2 <= Len(t) /\ t[r + 1] = BACKTICK /\ t[r + 2] = BACKTICK
         THEN SubSeq(t, p + 2, r) \o UnwrapCodeFrom(t, r + 3)
         ELSE <<t[p]>> \o UnwrapCodeFrom(t, p + 1)

\* lines 261-263
ShortDoc(shortdoc) == UnwrapCodeFrom(StripTagsFrom(shortdoc, 1), 1)

\* lines 253-258
RECURSIVE ArgsParts(_)
ArgsParts(args) ==
    IF args = <<>> THEN <<>>
    ELSE (IF Head(args).repr # <<>> THEN <<Head(args).repr>> ELSE <<>>)
           \o ArgsParts(Tail(args))

ArgsStr(args) == Join(ArgsParts(args), <<",", " ">>)

\* lines 265-273: the keyword record of one decoded record
KeywordRecord(kw_data, library_name) ==
    [name |-> kw_data.name,
     id |-> Replace(kw_data.name, " ", <<"%", "2", "0">>),
     args |-> ArgsStr(kw_data.args),
     doc |-> ShortDoc(kw_data.shortdoc),
     library |-> library_name,
     source |-> kw_data.source,
     lineno |-> kw_data.lineno]

\* the position of key name in the dict d, or 0
DictIndex(d, name) ==
    LET hits == {k \in 1..Len(d) : d[k].name = name} IN
    IF hits = {} THEN 0 ELSE Min(hits)

\* DictSet that keeps the value a key already has
DictSetKeepFirst(d, rec) ==
    IF DictIndex(d, rec.name) = 0 THEN Append(d, rec) ELSE d

\* d[rec.name] = rec: a new key is appended, an old key keeps its place
DictSet(d, rec) ==
    LET k == DictIndex(d, rec.name) IN
    IF k = 0 THEN Append(d, rec) ELSE [d EXCEPT ![k] = rec]

\* lines 247-273: one iteration of the for loop
NormalizeOne(kws, kw_data, library_name) ==
    IF kw_data.name = <<>> THEN kws
    ELSE DictSet(kws, KeywordRecord(kw_data, library_name))

\* lines 246-273: the whole loop
RECURSIVE NormalizeFrom(_, _, _)
NormalizeFrom(kws, records, library_name) ==
    IF records = <<>> THEN kws
    ELSE NormalizeFrom(NormalizeOne(kws, Head(records), library_name),
                       Tail(records), library_name)

Normalize(records, library_name) == NormalizeFrom(<<>>, records, library_name)

\* the library whose record list the keyword loop is checked on
NormLibrary == "BuiltIn"

\* one iteration of the for loop of line 247
NormStep ==
    /\ norm_pc = "loop"
    /\ kw_pos <= Len(kw_list)
    /\ keywords' = NormalizeOne(keywords, kw_list[kw_pos], NormLibrary)
    /\ kw_pos' = kw_pos + 1
    /\ UNCHANGED <<kw_list, norm_pc>>

\* lines 275-280: the loop is over, the result is returned
NormReturn ==
    /\ norm_pc = "loop"
    /\ kw_pos > Len(kw_list)
    /\ norm_pc' = "done"
    /\ UNCHANGED <<kw_list, kw_pos, keywords>>

(***************************************************************************)
(* search_rf_documentation, lines 400-435, on the sections of the index.   *)
(***************************************************************************)
RF_VERSION == "7.4.1"

RF_DOCS_URL == "https://robotframework.org/robotframework/7.4.1/RobotFrameworkUserGuide.html"

PreviewLen == 300

UpperCase ==
    <<"A", "B", "C", "D", "E", "F", "G", "H", "I", "J", "K", "L", "M",
      "N", "O", "P", "Q", "R", "S", "T", "U", "V", "W", "X", "Y", "Z">>

LowerCase ==
    <<"a", "b", "c", "d", "e", "f", "g", "h", "i", "j", "k", "l", "m",
      "n", "o", "p", "q", "r", "s", "t", "u", "v", "w", "x", "y", "z">>

LowerChar(c) ==
    IF \E k \in 1..Len(UpperCase) : UpperCase[k] = c
    THEN LowerCase[CHOOSE k \in 1..Len(UpperCase) : UpperCase[k] = c]
    ELSE c

\* str.lower()
Lower(t) == [k \in 1..Len(t) |-> LowerChar(t[k])]

\* t[p:].count(sub): the occurrences of sub in t that do not overlap, counted
\* from the left
RECURSIVE CountFrom(_, _, _)
CountFrom(t, sub, p) ==
    IF sub = <<>> THEN Len(t) - p + 2
    ELSE IF p + Len(sub) - 1 > Len(t) THEN 0
    ELSE IF SubSeq(t, p, p + Len(sub) - 1) = sub
         THEN 1 + CountFrom(t, sub, p + Len(sub))
         ELSE CountFrom(t, sub, p + 1)

\* str.count(sub)
Count(t, sub) == CountFrom(t, sub, 1)

\* t[:n]
Slice(t, n) ==
    IF n >= 0
    THEN SubSeq(t, 1, IF n < Len(t) THEN n ELSE Len(t))
    ELSE SubSeq(t, 1, IF Len(t) + n > 0 THEN Len(t) + n ELSE 0)

\* lines 412-413
TitleMatches(section, q) == Count(Lower(section.title), Lower(q))

ContentMatches(section, q) == Count(Lower(section.content), Lower(q))

\* line 416
Relevance(section, q) == (TitleMatches(section, q) * 10) + ContentMatches(section, q)

\* lines 418-425
SearchResult(section, q) ==
    [title |-> section.title,
     id |-> section.id,
     level |-> section.level,
     relevance |-> Relevance(section, q),
     content_preview |-> Slice(section.content, PreviewLen) \o <<".", ".", ".">>,
     url |-> <<RF_DOCS_URL, "#", section.id>>]

\* SearchOne without the test of line 415: every section is a result
SearchOneKeepingAll(res, section, q) == Append(res, SearchResult(section, q))

\* lines 408-425: one iteration of the for loop
SearchOne(res, section, q) ==
    IF TitleMatches(section, q) > 0 \/ ContentMatches(section, q) > 0
    THEN Append(res, SearchResult(section, q))
    ELSE res

\* InsertByRelevance that puts a result before the results of equal relevance
InsertBeforeEqual(sorted, r) ==
    LET before == {k \in 1..Len(sorted) : sorted[k].relevance > r.relevance}
        n == Cardinality(before) IN
    SubSeq(sorted, 1, n) \o <<r>> \o SubSeq(sorted, n + 1, Len(sorted))

\* r put into a list sorted by relevance, descending, behind the results of
\* equal relevance
InsertByRelevance(sorted, r) ==
    LET before == {k \in 1..Len(sorted) : sorted[k].relevance >= r.relevance}
        n == Cardinality(before) IN
    SubSeq(sorted, 1, n) \o <<r>> \o SubSeq(sorted, n + 1, Len(sorted))

\* line 428: results.sort(key=relevance, reverse=True), a stable sort
RECURSIVE SortFrom(_, _)
SortFrom(sorted, rest) ==
    IF rest = <<>> THEN sorted
    ELSE SortFrom(InsertByRelevance(sorted, Head(rest)), Tail(rest))

SortByRelevance(res) == SortFrom(<<>>, res)

\* lines 430-435
SearchReturnValue(res, q, n) ==
    [version |-> RF_VERSION,
     query |-> q,
     total_matches |-> Len(res),
     results |-> Slice(SortByRelevance(res), n)]

\* lines 405-425: the whole loop
RECURSIVE SearchAll(_, _, _)
SearchAll(res, secs, q) ==
    IF secs = <<>> THEN res
    ELSE SearchAll(SearchOne(res, Head(secs), q), Tail(secs), q)

\* lines 402-435 on the sections of the index
Search(secs, q, n) == SearchReturnValue(SearchAll(<<>>, secs, q), q, n)

\* one iteration of the for loop of line 407
SearchLoop ==
    /\ search_pc = "loop"
    /\ sec_i <= Len(index_sections)
    /\ results' = SearchOne(results, index_sections[sec_i], query)
    /\ sec_i' = sec_i + 1
    /\ UNCHANGED <<index_sections, query, max_results, search_ret, search_pc>>

\* lines 427-435: the sort and the return
SearchReturn ==
    /\ search_pc = "loop"
    /\ sec_i > Len(index_sections)
    /\ results' = SortByRelevance(results)
    /\ search_ret' = SearchReturnValue(results, query, max_results)
    /\ search_pc' = "done"
    /\ UNCHANGED <<index_sections, query, max_results, sec_i>>

(***************************************************************************)
(* The cache directory and the documents the network serves.  A file is    *)
(* NoFile or File(content); a library document is its text, the primary    *)
(* document the event stream HTMLParser makes of it.  json.loads is given  *)
(* by its value on the JSON literals of the sample documents; every other  *)
(* span is malformed JSON.  A JSON number is written as its text.          *)
(***************************************************************************)
NoFile == [exists |-> FALSE]

File(content) == [exists |-> TRUE, content |-> content]

AllLibraries ==
    <<"BuiltIn", "Collections", "DateTime", "OperatingSystem", "Process",
      "Screenshot", "String", "Telnet", "XML">>

\* lines 34-44, cut to the first NumLibraries libraries
STANDARD_LIBRARIES == SubSeq(AllLibraries, 1, NumLibraries)

Libraries == {STANDARD_LIBRARIES[k] : k \in 1..Len(STANDARD_LIBRARIES)}

\* the JSON literal of sample document A
JsonTextA ==
    <<"{", "\"", "k", "e", "y", "w", "o", "r", "d", "s", "\"", ":", "[",
      "{", "\"", "n", "a", "m", "e", "\"", ":", "\"", "R", "u", "n", " ",
      "K", "e", "y", "w", "o", "r", "d", "\"", ",", "\"", "a", "r", "g",
      "s", "\"", ":", "[", "{", "\"", "r", "e", "p", "r", "\"", ":",
      "\"", "n", "a", "m", "e", "\"", "}", ",", "{", "\"", "r", "e", "p",
      "r", "\"", ":", "\"", "*", "a", "r", "g", "s", "\"", "}", "]", ",",
      "\"", "s", "h", "o", "r", "t", "d", "o", "c", "\"", ":", "\"", "<",
      "b", ">", "R", "u", "n", "s", "<", "/", "b", ">", " ", BACKTICK,
      BACKTICK, "i", "t", BACKTICK, BACKTICK, " ", "}", "\"", ",", "\"",
      "s", "o", "u", "r", "c", "e", "\"", ":", "\"", "b", ".", "p", "y",
      "\"", ",", "\"", "l", "i", "n", "e", "n", "o", "\"", ":", "7", "}",
      ",", "{", "\"", "n", "a", "m", "e", "\"", ":", "\"", "L", "o", "g",
      "\"", "}", "]", "}">>

\* json.loads(JsonTextA), a key the object lacks given its .get default
DecodedA ==
    [keywords |->
     <<[name |-> <<"R", "u", "n", " ", "K", "e", "y", "w", "o", "r", "d">>,
       args |-> <<[repr |-> <<"n", "a", "m", "e">>], [repr |-> <<"*", "a", "r", "g", "s">>]>>,
       shortdoc |-> <<"<", "b", ">", "R", "u", "n", "s", "<", "/", "b", ">", " ", BACKTICK, BACKTICK, "i", "t", BACKTICK, BACKTICK, " ", "}">>,
       source |-> "b.py", lineno |-> "7"],
      [name |-> <<"L", "o", "g">>,
       args |-> <<>>,
       shortdoc |-> <<>>,
       source |-> "", lineno |-> ""]>>]

\* sample document A: the literal after the anchor, inside a script element
LibDocA ==
    <<"<", "s", "c", "r", "i", "p", "t", ">", "l", "i", "b", "d", "o", "c", " ", "=", " ">>
      \o JsonTextA
      \o <<";", "}", "<", "/", "s", "c", "r", "i", "p", "t", ">">>

\* the JSON literal of sample document B
JsonTextB ==
    <<"{", "\"", "k", "e", "y", "w", "o", "r", "d", "s", "\"", ":", "[",
      "{", "\"", "n", "a", "m", "e", "\"", ":", "\"", "r", "u", "n", "_",
      "k", "e", "y", "w", "o", "r", "d", "\"", ",", "\"", "s", "h", "o",
      "r", "t", "d", "o", "c", "\"", ":", "\"", "s", "a", "y", " ", "\\",
      "\"", "{", "\\", "\"", "\"", "}", ",", "{", "\"", "n", "a", "m",
      "e", "\"", ":", "\"", "L", "o", "g", "\"", ",", "\"", "s", "o",
      "u", "r", "c", "e", "\"", ":", "\"", "x", "\"", "}", ",", "{",
      "\"", "n", "a", "m", "e", "\"", ":", "\"", "L", "o", "g", "\"",
      ",", "\"", "s", "o", "u", "r", "c", "e", "\"", ":", "\"", "y",
      "\"", "}", "]", "}">>

\* json.loads(JsonTextB), a key the object lacks given its .get default
DecodedB ==
    [keywords |->
     <<[name |-> <<"r", "u", "n", "_", "k", "e", "y", "w", "o", "r", "d">>,
       args |-> <<>>,
       shortdoc |-> <<"s", "a", "y", " ", "\"", "{", "\"">>,
       source |-> "", lineno |-> ""],
      [name |-> <<"L", "o", "g">>,
       args |-> <<>>,
       shortdoc |-> <<>>,
       source |-> "x", lineno |-> ""],
      [name |-> <<"L", "o", "g">>,
       args |-> <<>>,
       shortdoc |-> <<>>,
       source |-> "y", lineno |-> ""]>>]

\* sample document B: the literal after the anchor, inside a script element
LibDocB ==
    <<"l", "i", "b", "d", "o", "c", "=">>
      \o JsonTextB
      \o <<>>

\* sample document C: an error page, without the anchor
LibDocC == <<"<", "p", ">", "4", "0", "4", " ">> \o LIBDOC \o <<"<", "/", "p", ">">>

LibDocs == {LibDocA, LibDocB, LibDocC}

\* the document published for a library
LibDocOf(library_name) == IF library_name = "Collections" THEN LibDocB ELSE LibDocA

\* what a request for a library's document yields: an HTTPError, the
\* published document, or an error page served with status 200
LibraryOutcomes(library_name) ==
    {[ok |-> FALSE, error |-> "HTTP Error 404: Not Found"],
     [ok |-> TRUE, content |-> LibDocOf(library_name)],
     [ok |-> TRUE, content |-> LibDocC]}

\* json.loads(libdoc_json), line 244
JsonLoads(span) ==
    CASE span = JsonTextA -> [ok |-> TRUE, value |-> DecodedA]
      [] span = JsonTextB -> [ok |-> TRUE, value |-> DecodedB]
      [] OTHER -> [ok |-> FALSE]

\* <h1 id="intro">A</h1> a b a <h2 id="x"> B </h2><p>b</p>
PrimaryDocA ==
    <<[type |-> "start", tag |-> "h1", id |-> "intro"],
      [type |-> "data", data |-> <<"A">>],
      [type |-> "end", tag |-> "h1"],
      [type |-> "data", data |-> <<" ", "a", " ", "b", " ", "a", " ">>],
      [type |-> "start", tag |-> "h2", id |-> "x"],
      [type |-> "data", data |-> <<" ", "B", " ">>],
      [type |-> "end", tag |-> "h2"],
      [type |-> "start", tag |-> "p", id |-> ""],
      [type |-> "data", data |-> <<"b">>],
      [type |-> "end", tag |-> "p"]>>

PrimaryDocs == {PrimaryDocA}

\* what a request for the primary document yields
PrimaryOutcomes ==
    {[ok |-> FALSE, error |-> "HTTP Error 404: Not Found"]}
        \cup {[ok |-> TRUE, content |-> d] : d \in PrimaryDocs}

\* no request is made
NoRequest == [ok |-> FALSE, error |-> "no request"]

(***************************************************************************)
(* _download_file, lines 113-149 (size_bytes left out).                    *)
(***************************************************************************)
\* the record returned
download_result(outcome, url, target_path) ==
    IF outcome.ok
    THEN [success |-> TRUE, path |-> target_path, url |-> url]
    ELSE [success |-> FALSE, error |-> outcome.error, url |-> url]

\* file_after_download for a fetcher that empties the target before the
\* request: a failed request leaves no document
file_after_download_opened_first(outcome, file) ==
    IF outcome.ok THEN File(outcome.content) ELSE NoFile

\* the target file afterwards: written at line 124, after the body was read
file_after_download(outcome, file) ==
    IF outcome.ok THEN File(outcome.content) ELSE file

(***************************************************************************)
(* _parse_documentation, lines 152-184.                                    *)
(***************************************************************************)
\* lines 164-169
SectionIndex(secs, clock) ==
    [version |-> RF_VERSION, parsed_at |-> clock, total_sections |-> Len(secs),
     sections |-> secs]

\* INDEX_FILE afterwards
index_after_parse(file, old_index, clock) ==
    IF file.exists THEN File(SectionIndex(ParseSections(file.content), clock))
    ELSE old_index

\* the record returned
parse_documentation(file) ==
    IF ~file.exists
    THEN [error |-> "Documentation not downloaded. Call fetch_rf_documentation first."]
    ELSE [success |-> TRUE, sections_parsed |-> Len(ParseSections(file.content)),
          index_path |-> "INDEX_FILE"]

(***************************************************************************)
(* _parse_library_keywords, lines 187-290, on the library's file.          *)
(***************************************************************************)
\* lines 213-241: one iteration of the loop at position p; end is the position
\* of the closing brace once it is found
ScanStep(acc, t, p) ==
    IF acc.end # 0 THEN acc
    ELSE LET st2 == ScanChar(acc.state, t[p]) IN
         [state |-> st2, end |-> IF st2.found THEN p ELSE 0]

\* the iterations at positions lo..hi, in order, the range being halved
RECURSIVE ScanRange(_, _, _, _)
ScanRange(t, lo, hi, acc) ==
    IF lo > hi THEN acc
    ELSE IF lo = hi THEN ScanStep(acc, t, lo)
    ELSE LET mid == (lo + hi) \div 2
             left == ScanRange(t, lo, mid, acc) IN
         IF left.end # 0 THEN left ELSE ScanRange(t, mid + 1, hi, left)

\* the position of the closing brace that ends the scan of t from position p
\* in scanner state st, or 0 when the text is exhausted (line 240)
ScanFrom(t, p, st) == ScanRange(t, p, Len(t), [state |-> st, end |-> 0]).end

parse_library_keywords(library_name, file) ==
    IF ~file.exists
    THEN [error |-> <<library_name, " documentation not downloaded.">>]
    ELSE LET t == file.content
             s == AnchorSearch(t) IN
         IF s = 0
         THEN [success |-> FALSE, error |-> "Could not find libdoc in HTML"]
         ELSE LET e == ScanFrom(t, s, ScanState0) IN
              IF e = 0
              THEN [success |-> FALSE, error |-> "Could not find end of libdoc JSON"]
              ELSE LET libdoc_data == JsonLoads(SubSeq(t, s, e)) IN
                   IF ~libdoc_data.ok
                   THEN [success |-> FALSE, error |-> "JSON parsing error"]
                   ELSE LET kws == Normalize(Get(libdoc_data.value, "keywords", <<>>),
                                             library_name) IN
                        [success |-> TRUE, library |-> library_name,
                         keywords |-> kws, total_keywords |-> Len(kws)]

\* parse_library_keywords on every library and every file the cache can hold
ParsedLibrary ==
    [n \in Libraries, f \in {NoFile} \cup {File(d) : d \in LibDocs} |->
        parse_library_keywords(n, f)] @@ <<>>

(***************************************************************************)
(* fetch_rf_documentation, lines 294-378, in four steps: the user guide    *)
(* (lines 308-331), one library (one iteration of the loop of line 337),   *)
(* the keyword index and the return (lines 359-378).                       *)
(***************************************************************************)
\* NeedsDownload with the cache test left out: every run downloads
AlwaysDownload(force, file) == TRUE

\* lines 316 and 342
NeedsDownload(force, file) == force \/ ~file.exists

\* lines 308-313
Results0 ==
    [version |-> RF_VERSION, cache_location |-> "CACHE_DIR",
     files_downloaded |-> <<>>, libraries |-> <<>>]

\* lines 317-326: results["user_guide"]
UserGuideResult(need, outcome) ==
    IF need THEN download_result(outcome, RF_DOCS_URL, "DOCS_FILE")
    ELSE [success |-> TRUE, cached |-> TRUE, path |-> "DOCS_FILE"]

\* lines 319-320 and 344-345
Downloaded(files, need, outcome, name) ==
    IF need /\ outcome.ok THEN Append(files, name) ELSE files

\* lines 350-353
LibraryReport(keywords_result) ==
    [success |-> Get(keywords_result, "success", FALSE),
     total_keywords |-> Get(keywords_result, "total_keywords", 0)]

\* lines 348-353: results["libraries"] after one library
ReportLibrary(libs, library_name, file, keywords_result) ==
    IF file.exists
    THEN (library_name :> LibraryReport(keywords_result)) @@ libs
    ELSE libs

\* lines 355-356: all_keywords after one library
FoldKeywords(all_kw, library_name, file, keywords_result) ==
    IF file.exists /\ Get(keywords_result, "success", FALSE)
    THEN Append(all_kw, [library |-> library_name,
                         keywords |-> Get(keywords_result, "keywords", <<>>)])
    ELSE all_kw

\* FoldTotal with an assignment in place of the += of line 357
FoldTotalAssigned(total, file, keywords_result) ==
    IF file.exists /\ Get(keywords_result, "success", FALSE)
    THEN Get(keywords_result, "total_keywords", 0)
    ELSE total

\* line 357
FoldTotal(total, file, keywords_result) ==
    IF file.exists /\ Get(keywords_result, "success", FALSE)
    THEN total + Get(keywords_result, "total_keywords", 0)
    ELSE total

\* lines 361-367
KeywordsIndex(all_kw, total, clock) ==
    [version |-> RF_VERSION, parsed_at |-> clock, total_libraries |-> Len(all_kw),
     total_keywords |-> total, libraries |-> all_kw]

\* SavedIndex without the test of line 360: the index is written in every run
SavedIndexAlways(old_index, all_kw, total, clock) ==
    File(KeywordsIndex(all_kw, total, clock))

\* lines 360-368: KEYWORDS_INDEX afterwards
SavedIndex(old_index, all_kw, total, clock) ==
    IF all_kw # <<>> THEN File(KeywordsIndex(all_kw, total, clock)) ELSE old_index

\* FinalResults with a success that also asks for every library's keywords
FinalResultsAllSucceeded(res, all_kw, total) ==
    [success |-> /\ Get(Get(res, "user_guide", <<>>), "success", FALSE)
                 /\ Len(all_kw) = Len(STANDARD_LIBRARIES)] @@ res

\* lines 369-376: results at the return
FinalResults(res, all_kw, total) ==
    LET with_index ==
            IF all_kw # <<>>
            THEN [keywords_index |->
                    [success |-> TRUE, path |-> "KEYWORDS_INDEX",
                     total_libraries |-> Len(all_kw), total_keywords |-> total]] @@ res
            ELSE res IN
    [success |-> Get(Get(with_index, "user_guide", <<>>), "success", FALSE)] @@ with_index

\* every cache slot is populated
AllCached == docs_file.exists /\ \A n \in Libraries : lib_files[n].exists

\* what a run finds when it starts: whether it is forced, whether every cache
\* slot is populated, the libraries whose slot is populated, and the two index
\* artifacts
RunStart(force) ==
    [ran |-> TRUE, force_refresh |-> force, cached |-> AllCached,
     docs_cached |-> docs_file.exists,
     lib_cached |-> {n \in Libraries : lib_files[n].exists},
     index_file |-> index_file, keywords_index |-> keywords_index]

\* lines 308-313 and 334-335: fetch_rf_documentation(force) is entered
EnterFetch(force) ==
    /\ runs < MaxRuns
    /\ pc' = "guide"
    /\ force_refresh' = force
    /\ fetch_results' = Results0
    /\ all_keywords' = <<>>
    /\ total_keywords' = 0
    /\ lib_i' = 1
    /\ requests' = 0
    /\ runs' = runs + 1
    /\ run_start' = RunStart(force)
    /\ prev_run' = [ran |-> run_start.ran, force_refresh |-> run_start.force_refresh,
                    cached |-> run_start.cached]

\* the function returns: its local variables are gone
LeaveFetch ==
    /\ pc' = "done"
    /\ force_refresh' = FALSE
    /\ fetch_results' = None
    /\ all_keywords' = <<>>
    /\ total_keywords' = 0
    /\ lib_i' = 1
    /\ requests' = 0

\* the tool fetch_rf_documentation is called
CallFetch ==
    /\ pc = "idle"
    /\ \E force \in BOOLEAN :
          /\ EnterFetch(force)
          /\ op' = [name |-> "fetch_rf_documentation", force_refresh |-> force]
    /\ calls' = <<>>
    /\ ret' = None
    /\ UNCHANGED fileVars

\* lines 315-331: the user guide is downloaded, if need be, and indexed
FetchUserGuide ==
    /\ pc = "guide"
    /\ LET need == NeedsDownload(force_refresh, docs_file) IN
       \E outcome \in (IF need THEN PrimaryOutcomes ELSE {NoRequest}) :
          LET file == IF need THEN file_after_download(outcome, docs_file) ELSE docs_file
              res1 == [user_guide |-> UserGuideResult(need, outcome)] @@
                      [fetch_results EXCEPT !.files_downloaded =
                          Downloaded(@, need, outcome, "RobotFrameworkUserGuide.html")] IN
          /\ docs_file' = file
          /\ requests' = IF need THEN requests + 1 ELSE requests
          /\ index_file' = index_after_parse(file, index_file, now)
          /\ now' = now + 1
          /\ fetch_results' = IF file.exists
                              THEN [indexing |-> parse_documentation(file)] @@ res1
                              ELSE res1
          /\ calls' = calls
                        \o (IF need THEN <<<<"fetch_rf_documentation", "_download_file">>>>
                                    ELSE <<>>)
                        \o (IF file.exists
                            THEN <<<<"fetch_rf_documentation", "_parse_documentation">>>>
                            ELSE <<>>)
    /\ pc' = "libs"
    /\ UNCHANGED <<lib_files, keywords_index, op, force_refresh, all_keywords,
                   total_keywords, lib_i, ret, historyVars>>

\* FetchLibrary with a loop that is left when a library's document is missing
FetchLibraryAborting ==
    /\ pc = "libs"
    /\ lib_i <= Len(STANDARD_LIBRARIES)
    /\ LET library_name == STANDARD_LIBRARIES[lib_i]
           need == NeedsDownload(force_refresh, lib_files[library_name]) IN
       \E outcome \in (IF need THEN LibraryOutcomes(library_name) ELSE {NoRequest}) :
          LET file == IF need THEN file_after_download(outcome, lib_files[library_name])
                              ELSE lib_files[library_name]
              keywords_result == ParsedLibrary[library_name, file] IN
          /\ lib_files' = [lib_files EXCEPT ![library_name] = file]
          /\ requests' = IF need THEN requests + 1 ELSE requests
          /\ fetch_results' =
                [fetch_results EXCEPT
                    !.files_downloaded =
                        Downloaded(@, need, outcome, <<library_name, ".html">>),
                    !.libraries = ReportLibrary(@, library_name, file, keywords_result)]
          /\ all_keywords' = FoldKeywords(all_keywords, library_name, file, keywords_result)
          /\ total_keywords' = FoldTotal(total_keywords, file, keywords_result)
          /\ calls' = calls
                        \o (IF need THEN <<<<"fetch_rf_documentation", "_download_file">>>>
                                    ELSE <<>>)
                        \o (IF file.exists
                            THEN <<<<"fetch_rf_documentation", "_parse_library_keywords">>>>
                            ELSE <<>>)
          /\ lib_i' = IF file.exists THEN lib_i + 1 ELSE Len(STANDARD_LIBRARIES) + 1
    /\ UNCHANGED <<docs_file, index_file, keywords_index, now, pc, op, force_refresh, ret,
                   historyVars>>

\* lines 337-357: one iteration of the loop over STANDARD_LIBRARIES
FetchLibrary ==
    /\ pc = "libs"
    /\ lib_i <= Len(STANDARD_LIBRARIES)
    /\ LET library_name == STANDARD_LIBRARIES[lib_i]
           need == NeedsDownload(force_refresh, lib_files[library_name]) IN
       \E outcome \in (IF need THEN LibraryOutcomes(library_name) ELSE {NoRequest}) :
          LET file == IF need THEN file_after_download(outcome, lib_files[library_name])
                              ELSE lib_files[library_name]
              keywords_result == ParsedLibrary[library_name, file] IN
          /\ lib_files' = [lib_files EXCEPT ![library_name] = file]
          /\ requests' = IF need THEN requests + 1 ELSE requests
          /\ fetch_results' =
                [fetch_results EXCEPT
                    !.files_downloaded =
                        Downloaded(@, need, outcome, <<library_name, ".html">>),
                    !.libraries = ReportLibrary(@, library_name, file, keywords_result)]
          /\ all_keywords' = FoldKeywords(all_keywords, library_name, file, keywords_result)
          /\ total_keywords' = FoldTotal(total_keywords, file, keywords_result)
          /\ calls' = calls
                        \o (IF need THEN <<<<"fetch_rf_documentation", "_download_file">>>>
                                    ELSE <<>>)
                        \o (IF file.exists
                            THEN <<<<"fetch_rf_documentation", "_parse_library_keywords">>>>
                            ELSE <<>>)
    /\ lib_i' = lib_i + 1
    /\ UNCHANGED <<docs_file, index_file, keywords_index, now, pc, op, force_refresh, ret,
                   historyVars>>

\* lines 359-378: the keyword index is saved and the results are complete
FetchSave ==
    /\ pc = "libs"
    /\ lib_i > Len(STANDARD_LIBRARIES)
    /\ keywords_index' = SavedIndex(keywords_index, all_keywords, total_keywords, now)
    /\ now' = now + 1
    /\ fetch_results' = FinalResults(fetch_results, all_keywords, total_keywords)
    /\ pc' = "returned"
    /\ UNCHANGED <<docs_file, lib_files, index_file, op, force_refresh, all_keywords,
                   total_keywords, lib_i, requests, calls, ret, historyVars>>

\* line 378: the tool fetch_rf_documentation returns its results
FetchReturn ==
    /\ pc = "returned"
    /\ op.name = "fetch_rf_documentation"
    /\ ret' = fetch_results
    /\ LeaveFetch
    /\ UNCHANGED <<fileVars, op, calls, historyVars>>

(***************************************************************************)
(* The query tools, lines 382-668.  A filter pattern is a text without     *)
(* regular-expression operators, or the unbalanced "(".  An optional       *)
(* argument left out is the empty text: the tools test their optional      *)
(* arguments for truth (lines 476, 525 and 607), and so treat None and the *)
(* empty text alike.                                                       *)
(***************************************************************************)
RF_BASE_LIB_URL == "https://robotframework.org/robotframework/7.4.1/libraries"

DescriptionLen == 200

\* the characters of keyword names, in code point order
CodePoints == <<" ", "-">> \o UpperCase \o <<"_">> \o LowerCase

Ord(c) == CHOOSE k \in 1..Len(CodePoints) : CodePoints[k] = c

\* a < b for strings
StrLess(a, b) ==
    \E k \in 1..(Len(a) + 1) :
       /\ k <= Len(b)
       /\ SubSeq(a, 1, k - 1) = SubSeq(b, 1, k - 1)
       /\ k = Len(a) + 1 \/ Ord(a[k]) < Ord(b[k])

\* one step of sorted(): rec goes behind the items whose name is not greater
RECURSIVE InsertByName(_, _)
InsertByName(sorted, rec) ==
    IF sorted = <<>> THEN <<rec>>
    ELSE IF StrLess(rec.name, Head(sorted).name) THEN <<rec>> \o sorted
    ELSE <<Head(sorted)>> \o InsertByName(Tail(sorted), rec)

\* sorted(keywords.items())
RECURSIVE SortedItemsFrom(_, _)
SortedItemsFrom(sorted, kws) ==
    IF kws = <<>> THEN sorted
    ELSE SortedItemsFrom(InsertByName(sorted, Head(kws)), Tail(kws))

SortedItems(kws) == SortedItemsFrom(<<>>, kws)

\* lines 484-492 and 542-550
KeywordList(kws, lib_name) ==
    LET items == SortedItems(kws) IN
    [k \in 1..Len(items) |->
        [name |-> items[k].name, library |-> lib_name, args |-> items[k].args,
         description |-> Slice(items[k].doc, DescriptionLen)]]

\* if filter_pattern:
HasFilter(filter_pattern) == filter_pattern # <<>>

\* re.compile(filter_pattern, re.IGNORECASE) raises re.error
InvalidPattern(filter_pattern) == filter_pattern = <<"(">>

\* a{4294967296}: a repetition count above sre's MAXREPEAT
OverflowPattern == <<"a", "{", "4", "2", "9", "4", "9", "6", "7", "2", "9", "6", "}">>

\* re.compile(filter_pattern, re.IGNORECASE) raises OverflowError, which is not
\* an re.error
PatternOverflows(filter_pattern) == filter_pattern = OverflowPattern

\* the tool does not return: the exception e leaves it
Raised(e) == [raised |-> e]

\* sub occurs in t
Contains(t, sub) ==
    \E p \in 1..(Len(t) - Len(sub) + 1) : SubSeq(t, p, p + Len(sub) - 1) = sub

\* pattern.search(k) for the compiled pattern
PatternSearch(filter_pattern, k) == Contains(Lower(k), Lower(filter_pattern))

\* {k: v for k, v in keywords.items() if pattern.search(k)}
FilterKeywords(kws, filter_pattern) ==
    SelectSeq(kws, LAMBDA rec : PatternSearch(filter_pattern, rec.name))

\* search_rf_documentation, lines 394-437
search_rf_documentation(q, n) ==
    IF ~index_file.exists
    THEN [error |-> "Documentation index not found. Call fetch_rf_documentation first.",
          hint |-> "Run fetch_rf_documentation() to download and index docs"]
    ELSE Search(Get(index_file.content, "sections", <<>>), q, n)

\* get_library_keywords from line 468 on
LibraryKeywords(library_name, filter_pattern) ==
    LET keywords_result == ParsedLibrary[library_name, lib_files[library_name]] IN
    IF ~Get(keywords_result, "success", FALSE) THEN keywords_result
    ELSE IF HasFilter(filter_pattern) /\ InvalidPattern(filter_pattern)
    THEN [error |-> "Invalid regex pattern"]
    ELSE IF HasFilter(filter_pattern) /\ PatternOverflows(filter_pattern)
    THEN Raised("OverflowError")
    ELSE LET kws == IF HasFilter(filter_pattern)
                    THEN FilterKeywords(keywords_result.keywords, filter_pattern)
                    ELSE keywords_result.keywords IN
         [version |-> RF_VERSION, library |-> library_name,
          total_keywords |-> Len(kws), keywords |-> KeywordList(kws, library_name)]

\* get_library_keywords, lines 455-499; fetch_result is None when
\* fetch_rf_documentation was not called
get_library_keywords(library_name, filter_pattern, fetch_result) ==
    IF library_name \notin Libraries
    THEN [error |-> <<"Unknown library: ", library_name>>,
          available_libraries |-> STANDARD_LIBRARIES]
    ELSE IF fetch_result # None /\ ~Get(fetch_result, "success", FALSE)
    THEN [error |-> <<"Failed to fetch documentation", library_name>>]
    ELSE LibraryKeywords(library_name, filter_pattern)

\* lines 528-533
RECURSIVE FilterLibraries(_, _)
FilterLibraries(libs, filter_pattern) ==
    IF libs = <<>> THEN <<>>
    ELSE LET filtered_kw == FilterKeywords(Head(libs).keywords, filter_pattern) IN
         (IF filtered_kw # <<>>
          THEN <<[library |-> Head(libs).library, keywords |-> filtered_kw]>>
          ELSE <<>>) \o FilterLibraries(Tail(libs), filter_pattern)

\* lines 539-552: total_keywords
RECURSIVE CountKeywords(_)
CountKeywords(libs) ==
    IF libs = <<>> THEN 0 ELSE Len(Head(libs).keywords) + CountKeywords(Tail(libs))

\* get_all_keywords without the return of line 518
get_all_keywords_ignoring_fetch(filter_pattern, fetch_result) ==
    IF ~keywords_index.exists
    THEN [error |-> "Failed to read keywords index"]
    ELSE [version |-> RF_VERSION, total_keywords |-> 0, total_libraries |-> 0,
          libraries |-> <<>>]

\* get_all_keywords, lines 515-561
get_all_keywords(filter_pattern, fetch_result) ==
    IF fetch_result # None /\ ~Get(fetch_result, "success", FALSE)
    THEN [error |-> "Failed to fetch documentation"]
    ELSE IF ~keywords_index.exists
    THEN [error |-> "Failed to read keywords index"]
    ELSE IF HasFilter(filter_pattern) /\ InvalidPattern(filter_pattern)
    THEN [error |-> "Invalid regex pattern"]
    ELSE IF HasFilter(filter_pattern) /\ PatternOverflows(filter_pattern)
    THEN [error |-> "Failed to read keywords index: OverflowError"]
    ELSE LET all_libraries == Get(keywords_index.content, "libraries", <<>>)
             libs == IF HasFilter(filter_pattern)
                     THEN FilterLibraries(all_libraries, filter_pattern)
                     ELSE all_libraries
             result_libraries ==
                 [k \in 1..Len(libs) |->
                     [library |-> libs[k].library,
                      keywords |-> KeywordList(libs[k].keywords, libs[k].library)]] IN
         [version |-> RF_VERSION, total_keywords |-> CountKeywords(result_libraries),
          total_libraries |-> Len(result_libraries), libraries |-> result_libraries]

\* NormalizeName without the replacement of hyphens
NormalizeNameKeepingHyphens(name) == Replace(Lower(name), "_", <<" ">>)

\* lines 618 and 622: name.lower().replace("_", " ").replace("-", " ")
NormalizeName(name) == Replace(Replace(Lower(name), "_", <<" ">>), "-", <<" ">>)

\* lines 621-632: the first keyword of kws that matches, or None
RECURSIVE FirstKeyword(_, _)
FirstKeyword(kws, keyword_name_lower) ==
    IF kws = <<>> THEN None
    ELSE IF NormalizeName(Head(kws).name) = keyword_name_lower THEN Head(kws)
    ELSE FirstKeyword(Tail(kws), keyword_name_lower)

\* lines 620-632: the loop over the libraries
RECURSIVE FirstMatch(_, _)
FirstMatch(libs, keyword_name_lower) ==
    IF libs = <<>> THEN None
    ELSE LET v == FirstKeyword(Head(libs).keywords, keyword_name_lower) IN
         IF v # None
         THEN [version |-> RF_VERSION, keyword |-> v.name,
               library |-> Head(libs).library, available |-> TRUE,
               arguments |-> v.args, documentation |-> v.doc,
               url |-> <<RF_BASE_LIB_URL, Head(libs).library, v.id>>]
         ELSE FirstMatch(Tail(libs), keyword_name_lower)

\* get_keyword_documentation, lines 597-642
get_keyword_documentation(keyword_name, library_name, fetch_result) ==
    IF fetch_result # None /\ ~Get(fetch_result, "success", FALSE)
    THEN [error |-> "Failed to fetch documentation"]
    ELSE IF ~keywords_index.exists
    THEN [error |-> "Failed to search keyword"]
    ELSE LET all_libraries == Get(keywords_index.content, "libraries", <<>>)
             names == [k \in 1..Len(all_libraries) |-> all_libraries[k].library] IN
         IF library_name # "" /\ \A k \in 1..Len(names) : names[k] # library_name
         THEN [error |-> <<"Library not found", library_name>>,
               available_libraries |-> names]
         ELSE LET libraries_to_search ==
                      IF library_name # ""
                      THEN SelectSeq(all_libraries, LAMBDA l : l.library = library_name)
                      ELSE all_libraries
                  found == FirstMatch(libraries_to_search, NormalizeName(keyword_name)) IN
              IF found # None THEN found
              ELSE [version |-> RF_VERSION, keyword |-> keyword_name,
                    available |-> FALSE,
                    message |-> <<"Keyword not found in any standard library",
                                  keyword_name>>,
                    hint |-> "Use get_all_keywords() to see all available keywords"]

\* check_keyword_availability that takes a result with a keyword for a hit
check_keyword_availability_by_keyword(keyword_name, result) ==
    LET available == "keyword" \in DOMAIN result IN
    [version |-> RF_VERSION,
     keyword_searched |-> keyword_name,
     available |-> available,
     library |-> Get(result, "library", None),
     keyword_actual_name |-> Get(result, "keyword", None),
     message |-> Get(result, "message", "Keyword is available")]

\* check_keyword_availability, lines 659-668, on the result of
\* get_keyword_documentation
check_keyword_availability(keyword_name, result) ==
    LET available == Get(result, "available", FALSE) IN
    [version |-> RF_VERSION,
     keyword_searched |-> keyword_name,
     available |-> available,
     library |-> IF available THEN Get(result, "library", None) ELSE None,
     keyword_actual_name |-> IF available THEN Get(result, "keyword", None) ELSE None,
     message |-> Get(result, "message",
                     <<"Keyword is available in library",
                       Get(result, "keyword", None), Get(result, "library", None)>>)]

\* lines 683-699
Urls ==
    [user_guide |-> RF_DOCS_URL,
     builtin_library |-> <<RF_BASE_LIB_URL, "/BuiltIn.html">>,
     release_notes |->
        "https://github.com/robotframework/robotframework/blob/master/doc/releasenotes/rf-7.4.1.rst",
     all_libraries |-> "https://robotframework.org/robotframework/7.4.1/libraries/",
     standard_libraries |->
        [n \in {AllLibraries[k] : k \in 1..Len(AllLibraries)} |->
            <<RF_BASE_LIB_URL, "/", n, ".html">>]]

\* get_documentation_url, lines 683-704
get_documentation_url(topic) ==
    [version |-> RF_VERSION,
     urls |-> IF topic = "" THEN Urls
              ELSE (topic :> Get(Urls, topic, "Topic not found"))]

\* NeedsFetch for a tool that calls the builder whatever the cache holds
NeedsFetchAlways(o) ==
    o.name \notin {"search_rf_documentation", "get_documentation_url"}

\* lines 463, 515 and 597: the tool calls fetch_rf_documentation()
NeedsFetch(o) ==
    CASE o.name = "search_rf_documentation" -> FALSE
      [] o.name = "get_library_keywords" ->
            o.library_name \in Libraries /\ ~lib_files[o.library_name].exists
      [] o.name = "get_builtin_keywords" -> ~lib_files["BuiltIn"].exists
      [] o.name = "get_documentation_url" -> FALSE
      [] OTHER -> ~keywords_index.exists

\* the calls the tool makes before line 463, 515 or 597
CallsBefore(o) ==
    CASE o.name = "get_builtin_keywords" ->
            <<<<"get_builtin_keywords", "get_library_keywords">>>>
      [] o.name = "check_keyword_availability" ->
            <<<<"check_keyword_availability", "get_keyword_documentation">>>>
      [] OTHER -> <<>>

\* the tool, of those that fetch_rf_documentation returns to, that called it
FetchCaller(o) ==
    CASE o.name = "get_builtin_keywords" -> "get_library_keywords"
      [] o.name = "check_keyword_availability" -> "get_keyword_documentation"
      [] OTHER -> o.name

\* the calls the tool makes after line 466, 518 or 600
CallsAfter(o, fetch_result) ==
    IF /\ FetchCaller(o) = "get_library_keywords"
       /\ o.name = "get_builtin_keywords" \/ o.library_name \in Libraries
       /\ fetch_result = None \/ Get(fetch_result, "success", FALSE)
    THEN <<<<"get_library_keywords", "_parse_library_keywords">>>>
    ELSE <<>>

\* the value the tool returns
Answer(o, fetch_result) ==
    CASE o.name = "search_rf_documentation" ->
            search_rf_documentation(o.query, o.max_results)
      [] o.name = "get_library_keywords" ->
            get_library_keywords(o.library_name, o.filter_pattern, fetch_result)
      [] o.name = "get_builtin_keywords" ->
            get_library_keywords("BuiltIn", o.filter_pattern, fetch_result)
      [] o.name = "get_all_keywords" ->
            get_all_keywords(o.filter_pattern, fetch_result)
      [] o.name = "get_keyword_documentation" ->
            get_keyword_documentation(o.keyword_name, o.library_name, fetch_result)
      [] o.name = "check_keyword_availability" ->
            check_keyword_availability(o.keyword_name,
                get_keyword_documentation(o.keyword_name, "", fetch_result))
      [] o.name = "get_documentation_url" -> get_documentation_url(o.topic)

\* a query tool is called: it returns at once, or enters fetch_rf_documentation()
Call(o) ==
    /\ pc = "idle"
    /\ op' = o
    /\ UNCHANGED fileVars
    /\ IF NeedsFetch(o)
       THEN /\ EnterFetch(FALSE)
            /\ calls' = Append(CallsBefore(o), <<FetchCaller(o), "fetch_rf_documentation">>)
            /\ ret' = None
       ELSE /\ calls' = CallsBefore(o) \o CallsAfter(o, None)
            /\ ret' = Answer(o, None)
            /\ pc' = "done"
            /\ UNCHANGED <<fetchVars, historyVars>>

\* fetch_rf_documentation() returns to the query tool that called it
QueryResume ==
    /\ pc = "returned"
    /\ op.name # "fetch_rf_documentation"
    /\ calls' = calls \o CallsAfter(op, fetch_results)
    /\ ret' = Answer(op, fetch_results)
    /\ LeaveFetch
    /\ UNCHANGED <<fileVars, op, historyVars>>

\* mcp.run(), line 710: the value returned is sent to the client and the server
\* waits for the next request
Respond ==
    /\ pc = "done"
    /\ pc' = "idle"
    /\ op' = None
    /\ calls' = <<>>
    /\ ret' = None
    /\ UNCHANGED <<fileVars, fetchVars, historyVars>>

(***************************************************************************)
(* Two server processes on one cache directory: one is in the write_text   *)
(* of line 173, the other in search_rf_documentation.  open(path, "w")     *)
(* truncates the file, the text is written afterwards, in one piece or in  *)
(* several.                                                                *)
(***************************************************************************)
\* the file after open(path, "w"): it is there and empty
Truncated == [exists |-> TRUE, written |-> "none"]

\* only a proper prefix of json.dumps(index) has reached the file
Partial(index) == [exists |-> TRUE, written |-> "part", content |-> index]

\* the file holds a whole JSON text
Complete(file) == file.exists /\ "written" \notin DOMAIN file

\* lines 400-437 on what read_text returns: json.loads raises JSONDecodeError
\* on the empty text and on a proper prefix of a JSON object, and line 436
\* catches it
search_file(file, q, n) ==
    IF Complete(file)
    THEN Search(Get(file.content, "sections", <<>>), q, n)
    ELSE [error |-> "Search failed: JSONDecodeError"]

\* line 173, open: the file is truncated
WriterOpen ==
    /\ writer.pc = "start"
    /\ index_file' = Truncated
    /\ writer' = [writer EXCEPT !.pc = "opened"]
    /\ UNCHANGED reader

\* line 173, write: a piece of the text, or all that is left of it
WriterWrite ==
    /\ writer.pc \in {"opened", "part"}
    /\ \/ /\ writer.pc = "opened"
          /\ index_file' = Partial(writer.new)
          /\ writer' = [writer EXCEPT !.pc = "part"]
       \/ /\ index_file' = File(writer.new)
          /\ writer' = [writer EXCEPT !.pc = "done"]
    /\ UNCHANGED reader

\* line 394: INDEX_FILE.exists()
ReaderExists ==
    /\ reader.pc = "start"
    /\ reader' =
          IF index_file.exists
          THEN [reader EXCEPT !.pc = "read"]
          ELSE [pc |-> "done", op |-> reader.op,
                ret |-> search_rf_documentation(reader.op.query, reader.op.max_results)]
    /\ UNCHANGED <<index_file, writer>>

\* lines 401-437: INDEX_FILE.read_text() and the answer
ReaderRead ==
    /\ reader.pc = "read"
    /\ reader' = [pc |-> "done", op |-> reader.op, seen |-> index_file,
                  ret |-> search_file(index_file, reader.op.query, reader.op.max_results)]
    /\ UNCHANGED <<index_file, writer>>

\* the state at start-up: an empty cache directory, no operation in progress
ServerRest ==
    /\ now = 0
    /\ pc = "idle"
    /\ op = None
    /\ force_refresh = FALSE
    /\ fetch_results = None
    /\ all_keywords = <<>>
    /\ total_keywords = 0
    /\ lib_i = 1
    /\ requests = 0
    /\ calls = <<>>
    /\ ret = None
    /\ runs = 0
    /\ run_start = [ran |-> FALSE, force_refresh |-> FALSE, cached |-> FALSE,
                    docs_cached |-> FALSE,
                    lib_cached |-> {},
                    index_file |-> NoFile, keywords_index |-> NoFile]
    /\ prev_run = [ran |-> FALSE, force_refresh |-> FALSE, cached |-> FALSE]

\* an empty cache directory, but for INDEX_FILE
ServerStart ==
    /\ docs_file = NoFile
    /\ lib_files = [n \in Libraries |-> NoFile]
    /\ keywords_index = NoFile
    /\ ServerRest

ServerInit == index_file = NoFile /\ ServerStart

(***************************************************************************)
(* SPECIFICATIONS                                                          *)
(***************************************************************************)
(***************************************************************************)
(* The texts the scan is checked on: a prefix, an anchor (or none) and     *)
(* every body of at most MaxBody characters, plus longer sample bodies.    *)
(***************************************************************************)
BodyChars == {"{", "}", "\"", "\\", "a"}

ScanPrefixes == {<<>>, <<"a", "{">>, LIBDOC \o <<" ", "{">>}

ScanAnchors ==
    { <<>>,
      LIBDOC \o <<"=", "{">>,
      LIBDOC \o <<" ", "=", "\n", "\t", "{">> }

\* {"k":{"s":"}{\""}}x}   (after the anchor's opening brace)
SampleBodyNested ==
    <<"\"", "k", "\"", ":", "{", "\"", "s", "\"", ":", "\"", "}", "{", "\\", "\"",
      "\"", "}", "}", "x", "}">>

\* "\\"}libdoc={}}     a string ending in an escaped backslash, a second anchor
SampleBodyTwice ==
    <<"\"", "\\", "\\", "\"", "}">> \o LIBDOC \o <<"=", "{", "}", "}">>

\* "}    a closing brace only inside an unterminated string
SampleBodyOpenString == <<"\"", "}", "}">>

SampleBodies == {SampleBodyNested, SampleBodyTwice, SampleBodyOpenString}

ScanTexts ==
    { pre \o anc \o body :
        pre \in ScanPrefixes, anc \in ScanAnchors,
        body \in SeqsUpTo(BodyChars, MaxBody) \cup SampleBodies }

ScanInit ==
    /\ html_content \in ScanTexts
    /\ start_pos = 0
    /\ i = 0
    /\ depth = 0
    /\ in_string = FALSE
    /\ escape = FALSE
    /\ libdoc_json = <<>>
    /\ scan_pc = "search"

\* the scan is not in use
ScanIdle ==
    /\ html_content = <<>>
    /\ start_pos = 0
    /\ i = 0
    /\ depth = 0
    /\ in_string = FALSE
    /\ escape = FALSE
    /\ libdoc_json = <<>>
    /\ scan_pc = "idle"

(***************************************************************************)
(* The event streams the section extractor is checked on: every stream of  *)
(* at most MaxEvents events.                                               *)
(***************************************************************************)
DataTexts == {<<" ">>, <<"a">>, <<" ", "b", "\n">>}

EventSet ==
    {[type |-> "start", tag |-> "h1", id |-> ""],
     [type |-> "start", tag |-> "h3", id |-> "x"],
     [type |-> "start", tag |-> "p", id |-> "y"],
     [type |-> "end", tag |-> "h2"]}
    \cup {[type |-> "data", data |-> d] : d \in DataTexts}

ParserStart ==
    /\ ev_pos = 1
    /\ sections = ParserInit.sections
    /\ current_section = ParserInit.current_section
    /\ current_content = ParserInit.current_content
    /\ in_section = ParserInit.in_section
    /\ section_level = ParserInit.section_level

SectionsInit ==
    /\ events \in SeqsUpTo(EventSet, MaxEvents)
    /\ ParserStart
    /\ sec_pc = "feed"

\* the section extractor is not in use
ParserIdle ==
    /\ events = <<>>
    /\ ParserStart
    /\ sec_pc = "idle"

\* the keyword loop is not in use
NormIdle ==
    /\ kw_list = <<>>
    /\ kw_pos = 1
    /\ keywords = <<>>
    /\ norm_pc = "idle"

\* the search is not in use
SearchIdle ==
    /\ index_sections = <<>>
    /\ query = <<>>
    /\ max_results = 0
    /\ sec_i = 1
    /\ results = <<>>
    /\ search_ret = None
    /\ search_pc = "idle"

\* no second process is at work
RaceIdle ==
    /\ writer = [pc |-> "idle"]
    /\ reader = [pc |-> "idle"]

vars == <<scanVars, parserVars, normVars, searchVars, serverVars, raceVars>>

notScan == <<parserVars, normVars, searchVars, serverVars, raceVars>>
notParser == <<scanVars, normVars, searchVars, serverVars, raceVars>>
notNorm == <<scanVars, parserVars, searchVars, serverVars, raceVars>>
notSearch == <<scanVars, parserVars, normVars, serverVars, raceVars>>
notServer == <<scanVars, parserVars, normVars, searchVars, raceVars>>

InitScan == ScanInit /\ ParserIdle /\ NormIdle /\ SearchIdle /\ ServerInit /\ RaceIdle

ScanNext ==
    \/ ScanSearch /\ UNCHANGED notScan
    \/ ScanLoop /\ UNCHANGED notScan
    \/ ScanExhausted /\ UNCHANGED notScan

SpecScan == InitScan /\ [][ScanNext]_vars

InitSections == SectionsInit /\ ScanIdle /\ NormIdle /\ SearchIdle /\ ServerInit /\ RaceIdle

SectionsNext ==
    \/ FeedStarttag /\ UNCHANGED notParser
    \/ FeedEndtag /\ UNCHANGED notParser
    \/ FeedData /\ UNCHANGED notParser
    \/ GetSections /\ UNCHANGED notParser

SpecSections == InitSections /\ [][SectionsNext]_vars

(***************************************************************************)
(* The record lists the keyword loop is checked on: every list of at most  *)
(* MaxRecords records.                                                     *)
(***************************************************************************)
RecordNames == {<<>>, <<"A", " ", "b">>, <<"a", "_", "b">>}

RecordVariants ==
    {[args |-> <<>>, shortdoc |-> <<>>, source |-> "", lineno |-> ""],
     [args |-> <<[repr |-> <<"x">>], [repr |-> <<>>], [repr |-> <<"y", "=", "1">>]>>,
      shortdoc |-> <<"<", "b", ">", "a", "<", "/", "b", ">", BACKTICK, BACKTICK, "c", BACKTICK, BACKTICK>>,
      source |-> "s1", lineno |-> "10"],
     [args |-> <<[repr |-> <<"z">>]>>,
      shortdoc |-> <<BACKTICK, BACKTICK, BACKTICK, "a", BACKTICK, BACKTICK, "<", ">", "<">>,
      source |-> "s2", lineno |-> "20"]}

RawRecords ==
    {[name |-> n, args |-> v.args, shortdoc |-> v.shortdoc, source |-> v.source,
      lineno |-> v.lineno] : n \in RecordNames, v \in RecordVariants}

NormInit ==
    /\ kw_list \in SeqsUpTo(RawRecords, MaxRecords)
    /\ kw_pos = 1
    /\ keywords = <<>>
    /\ norm_pc = "loop"

InitNorm == NormInit /\ ScanIdle /\ ParserIdle /\ SearchIdle /\ ServerInit /\ RaceIdle

NormNext ==
    \/ NormStep /\ UNCHANGED notNorm
    \/ NormReturn /\ UNCHANGED notNorm

SpecNorm == InitNorm /\ [][NormNext]_vars

(***************************************************************************)
(* The indexes the search is checked on: every list of at most MaxSections *)
(* sections, and the two sections "Libraries" and "Using Libraries".       *)
(***************************************************************************)
TextLibraries == <<"L", "i", "b", "r", "a", "r", "i", "e", "s">>

TextUsingLibraries == <<"U", "s", "i", "n", "g", " ">> \o TextLibraries

TextLibrary == <<"l", "i", "b", "r", "a", "r", "y">>

ExampleIndex ==
    <<[id |-> "libraries", level |-> 2, title |-> TextLibraries,
       content |-> <<"a", " ">> \o TextLibrary \o <<" ", "b">>],
      [id |-> "using-libraries", level |-> 3, title |-> TextUsingLibraries,
       content |-> <<>>]>>

SearchSectionSet ==
    {[id |-> "", level |-> 1, title |-> <<>>, content |-> <<>>],
     [id |-> "", level |-> 1, title |-> <<>>, content |-> <<"a", "b", "a">>],
     [id |-> "x", level |-> 2, title |-> <<>>, content |-> <<"a", "b", "a">>],
     [id |-> "", level |-> 1, title |-> <<"A">>, content |-> <<>>],
     [id |-> "x", level |-> 2, title |-> <<"A">>, content |-> <<"a", "b", "a">>]}

SearchQueries == {<<"a">>, <<>>}

SearchInit ==
    /\ \/ /\ index_sections \in SeqsUpTo(SearchSectionSet, MaxSections)
          /\ query \in SearchQueries
       \/ /\ index_sections = ExampleIndex
          /\ query \in {TextLibrary, <<"U", "S", "I", "N", "G">>}
    /\ max_results \in (-1)..MaxResultsArg
    /\ sec_i = 1
    /\ results = <<>>
    /\ search_ret = None
    /\ search_pc = "loop"

InitSearch == SearchInit /\ ScanIdle /\ ParserIdle /\ NormIdle /\ ServerInit /\ RaceIdle

SearchNext ==
    \/ SearchLoop /\ UNCHANGED notSearch
    \/ SearchReturn /\ UNCHANGED notSearch

SpecSearch == InitSearch /\ [][SearchNext]_vars

(***************************************************************************)
(* The server: the exposed operations are called one at a time, with       *)
(* arguments from the sets below, on a cache directory that starts empty;  *)
(* every request of a rebuild fails or yields a document.  At most MaxRuns *)
(* rebuilds are started.                                                   *)
(***************************************************************************)
QueryArgs == {<<"a">>, <<"B">>}

MaxResultsArgs == {1, 2}

LibraryArgs == {"BuiltIn", "Collections", "Nope"}

FilterArgs == {<<>>, <<"k", "E">>, <<"(">>, OverflowPattern}

KeywordArgs ==
    {<<"r", "u", "n", "_", "k", "e", "y", "w", "o", "r", "d">>,
     <<"R", "u", "n", "-", "K", "e", "y", "w", "o", "r", "d">>,
     <<"r", "u", "n", " ", "k", "e", "y", "w", "o", "r", "d">>,
     <<"l", "o", "g", "s">>}

CallSearch ==
    \E q \in QueryArgs, n \in MaxResultsArgs :
       Call([name |-> "search_rf_documentation", query |-> q, max_results |-> n])

CallGetLibraryKeywords ==
    \E n \in LibraryArgs, f \in FilterArgs :
       Call([name |-> "get_library_keywords", library_name |-> n, filter_pattern |-> f])

CallGetAllKeywords ==
    \E f \in FilterArgs : Call([name |-> "get_all_keywords", filter_pattern |-> f])

CallGetBuiltinKeywords ==
    \E f \in FilterArgs : Call([name |-> "get_builtin_keywords", filter_pattern |-> f])

CallGetKeywordDocumentation ==
    \E k \in KeywordArgs, n \in {"", "Collections", "Nope"} :
       Call([name |-> "get_keyword_documentation", keyword_name |-> k,
             library_name |-> n])

CallCheckKeywordAvailability ==
    \E k \in KeywordArgs : Call([name |-> "check_keyword_availability", keyword_name |-> k])

CallGetDocumentationUrl ==
    \E t \in {"", "user_guide", "builtin"} :
       Call([name |-> "get_documentation_url", topic |-> t])

(***************************************************************************)
(* The race: INDEX_FILE is missing or holds the index of an earlier run,   *)
(* one process is about to write a new index, another about to search.     *)
(***************************************************************************)
\* <h2>B a</h2>a
PrimaryDocB ==
    <<[type |-> "start", tag |-> "h2", id |-> ""],
      [type |-> "data", data |-> <<"B", " ", "a">>],
      [type |-> "end", tag |-> "h2"],
      [type |-> "data", data |-> <<"a">>]>>

RaceDocs == {PrimaryDocA, PrimaryDocB}

RaceInit ==
    /\ index_file \in {NoFile} \cup {File(SectionIndex(ParseSections(d), 0)) : d \in RaceDocs}
    /\ \E d \in RaceDocs :
          writer = [pc |-> "start", old |-> index_file,
                    new |-> SectionIndex(ParseSections(d), 1)]
    /\ \E q \in QueryArgs, n \in MaxResultsArgs :
          reader = [pc |-> "start", op |-> [query |-> q, max_results |-> n]]

notRace ==
    <<scanVars, parserVars, normVars, searchVars, docs_file, lib_files, keywords_index,
      now, fetchVars, callVars, historyVars>>

InitRace == RaceInit /\ ServerStart /\ ScanIdle /\ ParserIdle /\ NormIdle /\ SearchIdle

RaceNext ==
    \/ WriterOpen /\ UNCHANGED notRace
    \/ WriterWrite /\ UNCHANGED notRace
    \/ ReaderExists /\ UNCHANGED notRace
    \/ ReaderRead /\ UNCHANGED notRace

SpecRace == InitRace /\ [][RaceNext]_vars

(***************************************************************************)
(* A cache directory that already holds index files whose version field is *)
(* not RF_VERSION: files of the same name left there by another writer.    *)
(***************************************************************************)
OtherVersion == "7.3"

ForeignSectionIndex ==
    [SectionIndex(ParseSections(PrimaryDocB), 0) EXCEPT !.version = OtherVersion]

ForeignKeywordsIndex ==
    LET kws == ParsedLibrary["BuiltIn", File(LibDocOf("BuiltIn"))].keywords IN
    [KeywordsIndex(<<[library |-> "BuiltIn", keywords |-> kws]>>, Len(kws), 0)
        EXCEPT !.version = OtherVersion]

ForeignStart ==
    /\ index_file \in {NoFile, File(ForeignSectionIndex)}
    /\ keywords_index \in {NoFile, File(ForeignKeywordsIndex)}
    /\ docs_file = NoFile
    /\ lib_files = [n \in Libraries |-> NoFile]

InitForeign ==
    ForeignStart /\ ServerRest /\ ScanIdle /\ ParserIdle /\ NormIdle /\ SearchIdle /\ RaceIdle

ForeignNext ==
    \/ FetchUserGuide /\ UNCHANGED notServer
    \/ FetchLibrary /\ UNCHANGED notServer
    \/ FetchSave /\ UNCHANGED notServer
    \/ CallSearch /\ UNCHANGED notServer
    \/ CallGetAllKeywords /\ UNCHANGED notServer
    \/ CallGetKeywordDocumentation /\ UNCHANGED notServer
    \/ CallCheckKeywordAvailability /\ UNCHANGED notServer
    \/ QueryResume /\ UNCHANGED notServer
    \/ Respond /\ UNCHANGED notServer

SpecForeign == InitForeign /\ [][ForeignNext]_vars

(***************************************************************************)
(* The rebuild alone, with its scheduling: fetch_rf_documentation is       *)
(* straight-line code around one loop over STANDARD_LIBRARIES, and every   *)
(* request it makes ends, with a document or with an error (urlopen has a  *)
(* timeout of 30 seconds, line 119), so each of its steps is taken once it *)
(* is enabled.                                                             *)
(***************************************************************************)
RebuildNext ==
    \/ CallFetch /\ UNCHANGED notServer
    \/ FetchUserGuide /\ UNCHANGED notServer
    \/ FetchLibrary /\ UNCHANGED notServer
    \/ FetchSave /\ UNCHANGED notServer
    \/ FetchReturn /\ UNCHANGED notServer
    \/ Respond /\ UNCHANGED notServer

\* the step FetchUserGuide takes: it is the only action that leaves
\* pc = "guide", and it can be taken in every state with pc = "guide"
GuideStep == pc = "guide" /\ pc' = "libs"

RebuildFairness ==
    /\ WF_pc(GuideStep)
    /\ WF_vars(FetchLibrary /\ UNCHANGED notServer)
    /\ WF_vars(FetchSave /\ UNCHANGED notServer)
    /\ WF_vars(FetchReturn /\ UNCHANGED notServer)

InitRebuild == ServerInit /\ ScanIdle /\ ParserIdle /\ NormIdle /\ SearchIdle /\ RaceIdle

SpecRebuild == InitRebuild /\ [][RebuildNext]_vars /\ RebuildFairness

Init == ServerInit /\ ScanIdle /\ ParserIdle /\ NormIdle /\ SearchIdle /\ RaceIdle

Next ==
    \/ CallFetch /\ UNCHANGED notServer
    \/ FetchUserGuide /\ UNCHANGED notServer
    \/ FetchLibrary /\ UNCHANGED notServer
    \/ FetchSave /\ UNCHANGED notServer
    \/ FetchReturn /\ UNCHANGED notServer
    \/ CallSearch /\ UNCHANGED notServer
    \/ CallGetLibraryKeywords /\ UNCHANGED notServer
    \/ CallGetAllKeywords /\ UNCHANGED notServer
    \/ CallGetBuiltinKeywords /\ UNCHANGED notServer
    \/ CallGetKeywordDocumentation /\ UNCHANGED notServer
    \/ CallCheckKeywordAvailability /\ UNCHANGED notServer
    \/ CallGetDocumentationUrl /\ UNCHANGED notServer
    \/ QueryResume /\ UNCHANGED notServer
    \/ Respond /\ UNCHANGED notServer

Spec == Init /\ [][Next]_vars

(***************************************************************************)
(* CLAIMS                                                                  *)
(***************************************************************************)

(***************************************************************************)
(* Reference definitions of the scan, position by position, for the text   *)
(* t scanned from the opening brace at position s.                         *)
(***************************************************************************)
\* position k follows a backslash that is not itself escaped
RECURSIVE RefEscaped(_, _, _)
RefEscaped(t, s, k) ==
    /\ k > s
    /\ t[k - 1] = "\\"
    /\ ~RefEscaped(t, s, k - 1)

\* position k lies inside a string literal: an odd number of unescaped
\* double quotes precedes it
RefInString(t, s, k) ==
    Cardinality({q \in s..(k - 1) : t[q] = "\"" /\ ~RefEscaped(t, s, q)}) % 2 = 1

\* the brace at position k counts
RefCounted(t, s, k) ==
    /\ t[k] \in {"{", "}"}
    /\ ~RefEscaped(t, s, k)
    /\ ~RefInString(t, s, k)

\* the depth after position k
RefDepth(t, s, k) ==
    Cardinality({j \in s..k : RefCounted(t, s, j) /\ t[j] = "{"})
      - Cardinality({j \in s..k : RefCounted(t, s, j) /\ t[j] = "}"})

\* the closing braces that return the depth to 0
RefClosers(t, s) ==
    {k \in s..Len(t) : RefCounted(t, s, k) /\ t[k] = "}" /\ RefDepth(t, s, k) = 0}

\* the anchor "libdoc", optional white space, "=", optional white space, "{"
\* spans positions p..r
RefIsAnchor(t, p, r) ==
    /\ p + 5 <= Len(t) /\ r <= Len(t)
    /\ SubSeq(t, p, p + 5) = LIBDOC
    /\ t[r] = "{"
    /\ \E q \in (p + 6)..(r - 1) :
          /\ t[q] = "="
          /\ \A k \in ((p + 6)..(r - 1)) \ {q} : IsSpace(t[k])

RefAnchorStarts(t) == {p \in 1..Len(t) : \E r \in p..Len(t) : RefIsAnchor(t, p, r)}

\* C1: when the scan finds a span, it starts at the opening brace of the
\* first anchor and ends at the first closing brace that returns the depth
\* to 0, braces inside string literals and characters that follow a
\* backslash not counted.
C1_MinimalBalancedSpan ==
    scan_pc = "found" =>
        /\ RefAnchorStarts(html_content) # {}
        /\ RefIsAnchor(html_content, Min(RefAnchorStarts(html_content)), start_pos)
        /\ RefClosers(html_content, start_pos) # {}
        /\ libdoc_json = SubSeq(html_content, start_pos,
                                Min(RefClosers(html_content, start_pos)))

\* a span was extracted from an object with a nested object and a string
\* value holding "{", "}" and an escaped double quote, with text after it
C1_Witness ==
    /\ scan_pc = "found"
    /\ LET t == html_content
           s == start_pos
           e == s + Len(libdoc_json) - 1 IN
       /\ e < Len(t)
       /\ \E k \in (s + 1)..e : RefCounted(t, s, k) /\ t[k] = "{"
       /\ \E k \in s..e : t[k] = "{" /\ RefInString(t, s, k)
       /\ \E k \in s..e : t[k] = "}" /\ RefInString(t, s, k)
       /\ \E k \in s..e : t[k] = "\"" /\ RefEscaped(t, s, k) /\ RefInString(t, s, k)

(***************************************************************************)
(* Reference definitions for the section extractor, on the event stream.   *)
(***************************************************************************)
Max(S) == CHOOSE x \in S : \A y \in S : x >= y

\* the n-th smallest element of the set of numbers S
RefNth(S, n) == CHOOSE x \in S : Cardinality({y \in S : y < x}) = n - 1

\* the positions of the heading start tags
RefHeadingStarts(evs) ==
    {k \in 1..Len(evs) : evs[k].type = "start" /\ evs[k].tag \in HeadingTags}

\* event k lies outside heading tags: the nearest heading tag before it is an
\* end tag
RefOutsideHeading(evs, k) ==
    LET tags == {j \in 1..(k - 1) :
                    evs[j].type \in {"start", "end"} /\ evs[j].tag \in HeadingTags} IN
    tags # {} /\ evs[Max(tags)].type = "end"

\* the text without its leading and trailing white space
RefTrim(t) ==
    LET ink == {k \in 1..Len(t) : ~IsSpace(t[k])} IN
    IF ink = {} THEN <<>> ELSE SubSeq(t, Min(ink), Max(ink))

\* the positions of the content fragments of the n-th section
RefFragments(evs, n) ==
    LET hs == RefHeadingStarts(evs)
        from == RefNth(hs, n)
        to == IF n < Cardinality(hs) THEN RefNth(hs, n + 1) ELSE Len(evs) + 1 IN
    {k \in (from + 1)..(to - 1) :
        /\ evs[k].type = "data"
        /\ RefOutsideHeading(evs, k)
        /\ RefTrim(evs[k].data) # <<>>}

\* the trimmed texts at the positions F, in order, separated by single spaces
RECURSIVE RefJoined(_, _)
RefJoined(evs, F) ==
    IF F = {} THEN <<>>
    ELSE LET k == Min(F) IN
         RefTrim(evs[k].data)
           \o (IF F \ {k} = {} THEN <<>> ELSE <<" ">> \o RefJoined(evs, F \ {k}))

\* C10: the extractor yields one section per heading start tag, in document
\* order, and the content of the n-th section is the non-empty trimmed text
\* outside heading tags between the n-th heading start tag and the next one
\* (or the end of input), joined by single spaces.
C10_SectionOrdering ==
    sec_pc = "done" =>
        LET hs == RefHeadingStarts(events) IN
        /\ Len(sections) = Cardinality(hs)
        /\ \A n \in 1..Len(sections) :
              /\ sections[n].level = HeadingLevel(events[RefNth(hs, n)].tag)
              /\ sections[n].id = events[RefNth(hs, n)].id
              /\ sections[n].content = RefJoined(events, RefFragments(events, n))

\* two sections were extracted, the first with two content fragments
C10_Witness ==
    /\ sec_pc = "done"
    /\ Len(sections) = 2
    /\ Cardinality(RefFragments(events, 1)) = 2
    /\ sections[1].level # sections[2].level

\* the positions of the records of the list that carry name n
RefNamed(records, n) == {k \in 1..Len(records) : records[k].name = n}

\* C9: when the keyword loop is done, every non-empty name of the record list
\* has exactly one keyword record, and its args, doc, source and lineno are
\* those of the last record of the list that carries the name.
C9_LastWriteWins ==
    norm_pc = "done" =>
        \A j \in 1..Len(kw_list) :
            LET n == kw_list[j].name
                last == kw_list[Max(RefNamed(kw_list, n))] IN
            n # <<>> =>
                /\ Cardinality({k \in 1..Len(keywords) : keywords[k].name = n}) = 1
                /\ \A k \in 1..Len(keywords) :
                      keywords[k].name = n =>
                          /\ keywords[k].args = ArgsStr(last.args)
                          /\ keywords[k].doc = ShortDoc(last.shortdoc)
                          /\ keywords[k].source = last.source
                          /\ keywords[k].lineno = last.lineno

\* the loop is done on a list in which a name occurs twice with different
\* values, next to another name
C9_Witness ==
    /\ norm_pc = "done"
    /\ Len(keywords) = 2
    /\ \E j1, j2 \in 1..Len(kw_list) :
          /\ j1 < j2
          /\ kw_list[j1].name = kw_list[j2].name
          /\ kw_list[j1].name # <<>>
          /\ kw_list[j1].source # kw_list[j2].source
          /\ kw_list[j1].args # kw_list[j2].args

(***************************************************************************)
(* Reference definitions for the search.                                   *)
(***************************************************************************)
\* the positions of the sections of positive relevance
RefMatching(secs, q) == {k \in 1..Len(secs) : Relevance(secs[k], q) > 0}

\* the place of section k among the matching sections: behind every section
\* of greater relevance and every earlier section of equal relevance
RefRank(secs, q, k) ==
    1 + Cardinality({j \in RefMatching(secs, q) :
                        \/ Relevance(secs[j], q) > Relevance(secs[k], q)
                        \/ Relevance(secs[j], q) = Relevance(secs[k], q) /\ j < k})

\* C7: for max_results >= 0 the results are the first max_results of the
\* sections of positive relevance, by descending relevance, sections of equal
\* relevance in index order; total_matches counts the sections of positive
\* relevance before truncation.
C7_SearchResults ==
    (search_pc = "done" /\ max_results >= 0) =>
        LET m == RefMatching(index_sections, query)
            n == IF max_results < Cardinality(m) THEN max_results ELSE Cardinality(m) IN
        /\ search_ret.total_matches = Cardinality(m)
        /\ Len(search_ret.results) = n
        /\ \A r \in 1..n :
              \E k \in m :
                  /\ RefRank(index_sections, query, k) = r
                  /\ search_ret.results[r].title = index_sections[k].title
                  /\ search_ret.results[r].id = index_sections[k].id
                  /\ search_ret.results[r].level = index_sections[k].level
                  /\ search_ret.results[r].relevance = Relevance(index_sections[k], query)
                  /\ search_ret.results[r].relevance > 0

\* a search returned two results of equal relevance from different sections,
\* with a section of relevance 0 left out and a matching section cut off
C7_Witness ==
    /\ search_pc = "done"
    /\ max_results = 2
    /\ search_ret.total_matches = 3
    /\ Cardinality(RefMatching(index_sections, query)) < Len(index_sections)
    /\ search_ret.results[1].relevance = search_ret.results[2].relevance
    /\ search_ret.results[1].id # search_ret.results[2].id
    /\ Relevance(index_sections[1], query) < search_ret.results[1].relevance

\* the search for "library" in the index of the sections "Libraries" and
\* "Using Libraries" has returned, not cut off by max_results
C6_ExampleSearched ==
    /\ search_pc = "done"
    /\ index_sections = ExampleIndex
    /\ query = TextLibrary
    /\ max_results >= 2

\* C6 as stated: the search for "library" counts one content hit for the
\* first section and one title hit for the second, and ranks the second
\* section (relevance 10) above the first.
C6_ExampleRanking ==
    C6_ExampleSearched =>
        /\ ContentMatches(ExampleIndex[1], query) = 1
        /\ TitleMatches(ExampleIndex[2], query) = 1
        /\ Len(search_ret.results) = 2
        /\ search_ret.results[1].title = TextUsingLibraries
        /\ search_ret.results[1].relevance = 10
        /\ search_ret.results[2].title = TextLibraries

\* C6 amended: the search for "library" counts one content hit for the first
\* section and no hit for the second, whose title "Using Libraries" does not
\* contain "library"; the second section has relevance 0 and is left out, and
\* the first is the only result, with relevance 1.
C6_ExampleOnlyFirst ==
    C6_ExampleSearched =>
        /\ ContentMatches(ExampleIndex[1], query) = 1
        /\ TitleMatches(ExampleIndex[1], query) = 0
        /\ TitleMatches(ExampleIndex[2], query) = 0
        /\ ContentMatches(ExampleIndex[2], query) = 0
        /\ search_ret.total_matches = 1
        /\ Len(search_ret.results) = 1
        /\ search_ret.results[1].title = TextLibraries
        /\ search_ret.results[1].relevance = 1

\* the example search has returned a result
C6_Witness == C6_ExampleSearched /\ search_ret.results # <<>>

(***************************************************************************)
(* Reference definitions for the rebuild and the query tools.              *)
(***************************************************************************)
\* the libraries whose cached document holds a well-formed libdoc object
RefParsed ==
    {n \in Libraries : lib_files[n].exists /\ lib_files[n].content = LibDocOf(n)}

\* the library names of a Keyword Index artifact
RefIndexLibraries(file) ==
    IF file.exists
    THEN {file.content.libraries[k].library : k \in 1..Len(file.content.libraries)}
    ELSE {}

\* the keyword records an index artifact holds for library n
RefIndexKeywords(file, n) ==
    LET libs == file.content.libraries IN
    libs[CHOOSE k \in 1..Len(libs) : libs[k].library = n].keywords

\* the run in progress has processed every library and built its report
RefRunComplete == pc = "returned"

\* the primary document was fetched, exactly one library was neither fetched
\* nor cached, and every other library was fetched and parsed
RefPartialFailure ==
    /\ RefRunComplete
    /\ docs_file.exists
    /\ "user_guide" \in DOMAIN fetch_results /\ fetch_results.user_guide.success
    /\ Cardinality({n \in Libraries : ~lib_files[n].exists}) = 1
    /\ \A n \in Libraries : lib_files[n].exists => n \in RefParsed

\* C2: in a rebuild where one library is neither fetched nor cached and all
\* else succeeds, the report has success = true, has an entry with
\* success = false for the failed library, and the persisted Keyword Index holds
\* the keywords of every other library.
C2_PartialFailureReport ==
    RefPartialFailure =>
        /\ fetch_results.success = TRUE
        /\ \A n \in Libraries \ RefParsed :
              /\ n \in DOMAIN fetch_results.libraries
              /\ fetch_results.libraries[n].success = FALSE
        /\ RefIndexLibraries(keywords_index) = RefParsed
        /\ \A n \in RefParsed :
              RefIndexKeywords(keywords_index, n) = ParsedLibrary[n, lib_files[n]].keywords

\* C3, as stated: after every completed rebuild the libraries of the persisted
\* Keyword Index are exactly the libraries parsed in this run.
C3_IndexAlwaysOverwritten ==
    RefRunComplete => RefIndexLibraries(keywords_index) = RefParsed

\* C3, amended: after a completed rebuild in which at least one library was
\* parsed, the Keyword Index is this run's: its libraries are exactly those
\* parsed in this run, in configured order, with the keywords parsed; after a
\* rebuild in which no library was parsed, the Keyword Index is what it was when
\* the run started.
C3_IndexOverwrittenUnlessEmpty ==
    RefRunComplete =>
        IF RefParsed # {}
        THEN /\ keywords_index.exists
             /\ RefIndexLibraries(keywords_index) = RefParsed
             /\ Len(keywords_index.content.libraries) = Cardinality(RefParsed)
             /\ \A j, k \in 1..Len(keywords_index.content.libraries) :
                   j < k =>
                      \E a, b \in 1..Len(STANDARD_LIBRARIES) :
                         /\ a < b
                         /\ STANDARD_LIBRARIES[a] = keywords_index.content.libraries[j].library
                         /\ STANDARD_LIBRARIES[b] = keywords_index.content.libraries[k].library
             /\ \A n \in RefParsed :
                   RefIndexKeywords(keywords_index, n)
                      = ParsedLibrary[n, lib_files[n]].keywords
        ELSE keywords_index = run_start.keywords_index

\* a rebuild parsed no library and the index of an earlier run, which holds
\* libraries, is still there
C3_Witness ==
    /\ RefRunComplete
    /\ RefParsed = {}
    /\ RefIndexLibraries(keywords_index) # {}
    /\ \A n \in Libraries : lib_files[n].exists

\* the run in progress was not forced and found every cache slot populated
RefCachedRun == ~run_start.force_refresh /\ run_start.cached

\* two index artifacts are equal but for parsed_at
RefSameButParsedAt(f, g) ==
    \/ ~f.exists /\ ~g.exists
    \/ /\ f.exists /\ g.exists
       /\ DOMAIN f.content = DOMAIN g.content
       /\ \A key \in DOMAIN f.content \ {"parsed_at"} : f.content[key] = g.content[key]

\* C5: a rebuild that is not forced and finds every cache slot populated makes
\* no request, and when the run before it was such a rebuild too, the Section
\* Index and the Keyword Index it leaves equal those the run before left, but
\* for parsed_at.
C5_IdempotentRebuild ==
    (RefRunComplete /\ RefCachedRun) =>
        /\ requests = 0
        /\ \A entry \in {calls[k] : k \in 1..Len(calls)} : entry[2] # "_download_file"
        /\ (prev_run.ran /\ ~prev_run.force_refresh /\ prev_run.cached) =>
              /\ RefSameButParsedAt(index_file, run_start.index_file)
              /\ RefSameButParsedAt(keywords_index, run_start.keywords_index)

\* the second of two such rebuilds in a row has written both artifacts anew
C5_Witness ==
    /\ RefRunComplete /\ RefCachedRun
    /\ prev_run.ran /\ ~prev_run.force_refresh /\ prev_run.cached
    /\ requests = 0
    /\ index_file.exists /\ run_start.index_file.exists
    /\ index_file.content.parsed_at # run_start.index_file.content.parsed_at
    /\ keywords_index.exists /\ run_start.keywords_index.exists
    /\ keywords_index.content.parsed_at # run_start.keywords_index.content.parsed_at
    /\ RefIndexLibraries(keywords_index) = Libraries

\* the five query operations, and the shortcut for the BuiltIn library
RefQueryTools ==
    {"search_rf_documentation", "get_library_keywords", "get_builtin_keywords",
     "get_all_keywords", "get_keyword_documentation", "check_keyword_availability"}

\* a query tool has returned
RefQueryDone == pc = "done" /\ op.name \in RefQueryTools

RefCallSet == {calls[k] : k \in 1..Len(calls)}

\* a raw document was parsed by something other than the Index Builder
RefParsedDirectly ==
    \E entry \in RefCallSet :
       /\ entry[1] # "fetch_rf_documentation"
       /\ entry[2] \in {"_parse_library_keywords", "_parse_documentation"}

\* the Index Builder was invoked
RefFetched == \E entry \in RefCallSet : entry[2] = "fetch_rf_documentation"

\* the library a keyword listing is about
RefListedLibrary ==
    IF op.name = "get_builtin_keywords" THEN "BuiltIn" ELSE op.library_name

\* C4, as stated: no query operation parses a raw document, and each invokes
\* the Index Builder only when the index artifact it answers from is missing.
C4_QueriesNeverParse ==
    RefQueryDone =>
        /\ ~RefParsedDirectly
        /\ RefFetched =>
              IF op.name = "search_rf_documentation"
              THEN ~run_start.index_file.exists
              ELSE ~run_start.keywords_index.exists

\* C4, amended: searching, listing all keywords, looking a keyword up and the
\* availability check parse no raw document; of these the search never invokes
\* the Index Builder and the others invoke it only when the Keyword Index is
\* missing.  Listing the keywords of one library parses the library's cached
\* raw document in every call that names a configured library, unless the
\* Index Builder it invoked reported failure (the primary document is neither
\* fetched nor cached), and it invokes the Index Builder only when that raw
\* document is missing.
C4_OnlyLibraryListingParses ==
    RefQueryDone =>
        IF op.name \in {"get_library_keywords", "get_builtin_keywords"}
        THEN /\ RefFetched =>
                  /\ RefListedLibrary \in Libraries
                  /\ RefListedLibrary \notin run_start.lib_cached
             /\ RefParsedDirectly <=>
                  /\ RefListedLibrary \in Libraries
                  /\ RefFetched => docs_file.exists
        ELSE /\ ~RefParsedDirectly
             /\ op.name = "search_rf_documentation" => ~RefFetched
             /\ RefFetched => ~run_start.keywords_index.exists

\* the keywords of a library whose raw document was missing are listed: the
\* Index Builder was invoked although the Keyword Index existed, and the raw
\* document was parsed again for the answer
C4_Witness ==
    /\ RefQueryDone
    /\ op.name = "get_library_keywords"
    /\ RefFetched
    /\ run_start.keywords_index.exists
    /\ RefParsedDirectly
    /\ "keywords" \in DOMAIN ret /\ ret.total_keywords > 0

\* lower-casing, with every underscore and hyphen replaced by a space
RefNorm(t) ==
    [k \in 1..Len(t) |-> IF t[k] \in {"_", "-"} THEN " " ELSE LowerChar(t[k])]

\* the stored names of library k of the index that equal the name asked for
\* after normalisation
RefMatches(k) ==
    LET kws == keywords_index.content.libraries[k].keywords IN
    {kws[j].name : j \in {j \in 1..Len(kws) : RefNorm(kws[j].name) = RefNorm(op.keyword_name)}}

RefRunKeyword == <<"R", "u", "n", " ", "K", "e", "y", "w", "o", "r", "d">>

RefExamples ==
    {<<"r", "u", "n", "_", "k", "e", "y", "w", "o", "r", "d">>,
     <<"R", "u", "n", "-", "K", "e", "y", "w", "o", "r", "d">>,
     <<"r", "u", "n", " ", "k", "e", "y", "w", "o", "r", "d">>}

\* get_keyword_documentation has answered from a Keyword Index that existed
\* when it was called, no library being given
RefLookupDone ==
    /\ pc = "done"
    /\ op.name = "get_keyword_documentation"
    /\ op.library_name = ""
    /\ calls = <<>>

\* C8: a lookup with no library given returns available = true when some stored
\* name equals the name asked for after lower-casing and replacing underscores
\* and hyphens by spaces; the library returned is the first one in index order
\* that holds such a name and the keyword returned is such a name of that
\* library; "run_keyword", "Run-Keyword" and "run keyword" resolve to the
\* stored name "Run Keyword".
C8_LookupNormalised ==
    RefLookupDone =>
        LET libs == keywords_index.content.libraries
            hits == {k \in 1..Len(libs) : RefMatches(k) # {}} IN
        /\ hits # {} =>
              /\ ret.available = TRUE
              /\ ret.library = libs[Min(hits)].library
              /\ ret.keyword \in RefMatches(Min(hits))
        /\ hits = {} => ret.available = FALSE
        /\ (op.keyword_name \in RefExamples /\ hits # {}
              /\ RefMatches(Min(hits)) = {RefRunKeyword}) => ret.keyword = RefRunKeyword

\* "Run-Keyword" is looked up in an index of two libraries that both hold a
\* matching name, and the first library's "Run Keyword" is returned
C8_Witness ==
    /\ RefLookupDone
    /\ op.keyword_name = <<"R", "u", "n", "-", "K", "e", "y", "w", "o", "r", "d">>
    /\ Len(keywords_index.content.libraries) = 2
    /\ RefMatches(1) = {RefRunKeyword}
    /\ RefMatches(2) # {} /\ RefRunKeyword \notin RefMatches(2)
    /\ ret.available = TRUE
    /\ ret.keyword = RefRunKeyword
    /\ ret.library = keywords_index.content.libraries[1].library

\* the events delivered so far
RefFed == SubSeq(events, 1, ev_pos - 1)

\* C11: as long as no heading start tag was delivered the extractor holds no
\* section and no text, a stream without a heading yields no section, and the
\* sections of a stream are those of the stream from its first heading start
\* tag on.
C11_LeadingTextDropped ==
    sec_pc \in {"feed", "done"} =>
        LET hs == RefHeadingStarts(events) IN
        /\ RefHeadingStarts(RefFed) = {} =>
              /\ current_section = NoSection
              /\ current_content = <<>>
              /\ sections = <<>>
        /\ (sec_pc = "done" /\ hs # {}) =>
              sections = ParseSections(SubSeq(events, Min(hs), Len(events)))

\* a stream is done whose first heading is preceded by text that occurs nowhere
\* after it, and no section holds that text
C11_Witness ==
    /\ sec_pc = "done"
    /\ Len(sections) >= 1
    /\ LET first == Min(RefHeadingStarts(events)) IN
       \E k \in 1..(first - 1) :
          /\ events[k].type = "data"
          /\ RefTrim(events[k].data) # <<>>
          /\ \A j \in (first + 1)..Len(events) :
                events[j].type = "data" => events[j].data # events[k].data
          /\ \A n \in 1..Len(sections) :
                /\ sections[n].title # RefTrim(events[k].data)
                /\ sections[n].content # RefTrim(events[k].data)
          /\ \E n \in 1..Len(sections) : sections[n].content # <<>>

\* the positions of the text events inside the open heading tag of the n-th
\* section: after its start tag, before the next heading tag of either kind
RefTitleEvents(evs, n) ==
    LET from == RefNth(RefHeadingStarts(evs), n)
        tags == {j \in (from + 1)..Len(evs) :
                    evs[j].type \in {"start", "end"} /\ evs[j].tag \in HeadingTags}
        to == IF tags = {} THEN Len(evs) + 1 ELSE Min(tags) IN
    {k \in (from + 1)..(to - 1) : evs[k].type = "data"}

\* C19: the title of every section is the trimmed text of the last text event
\* inside its open heading tag (empty when there is none), and no text event
\* inside an open heading tag is a content fragment of any section.
C19_TitleLastTextWins ==
    sec_pc = "done" =>
        \A n \in 1..Len(sections) :
           LET T == RefTitleEvents(events, n) IN
           /\ sections[n].title = IF T = {} THEN <<>> ELSE RefTrim(events[Max(T)].data)
           /\ \A m \in 1..Len(sections) : T \cap RefFragments(events, m) = {}
           /\ sections[n].content = RefJoined(events, RefFragments(events, n))

\* a heading held two text events with different texts; the section has the
\* second as its title and the text after the heading as its content
C19_Witness ==
    /\ sec_pc = "done"
    /\ Len(sections) >= 1
    /\ LET T == RefTitleEvents(events, 1) IN
       /\ Cardinality(T) = 2
       /\ RefTrim(events[Min(T)].data) # <<>>
       /\ RefTrim(events[Max(T)].data) # <<>>
       /\ RefTrim(events[Min(T)].data) # RefTrim(events[Max(T)].data)
       /\ sections[1].title = RefTrim(events[Max(T)].data)
    /\ sections[1].content # <<>>
    /\ sections[1].content # sections[1].title

\* C12: what a search reads from INDEX_FILE while another process writes it is
\* the whole artifact that was there before the write or the whole new artifact.
C12_ReaderSeesWholeArtifact ==
    (reader.pc = "done" /\ "seen" \in DOMAIN reader) =>
        reader.seen \in {writer.old, File(writer.new)}

\* C13: every tool call returns a structured result; no exception leaves a tool,
\* whatever the cache holds and whatever the arguments are.
C13_NeverRaises == pc = "done" => "raised" \notin DOMAIN ret

\* the number of times the Index Builder was invoked in the current call
RefFetchCount ==
    Cardinality({k \in 1..Len(calls) : calls[k][2] = "fetch_rf_documentation"})

\* the query operations that rebuild on a missing artifact, and the search
RefRebuildingTools ==
    {"search_rf_documentation", "get_library_keywords", "get_builtin_keywords",
     "get_all_keywords", "get_keyword_documentation"}

\* the artifact the operation checks was there when the operation was called
RefArtifactPresent ==
    CASE op.name = "search_rf_documentation" -> run_start.index_file.exists
      [] op.name \in {"get_library_keywords", "get_builtin_keywords"} ->
            RefListedLibrary \in run_start.lib_cached
      [] OTHER -> run_start.keywords_index.exists

\* the error payload of lines 465-466, 517-518 and 599-600
RefFetchFailedPayload ==
    IF op.name \in {"get_library_keywords", "get_builtin_keywords"}
    THEN [error |-> <<"Failed to fetch documentation", RefListedLibrary>>]
    ELSE [error |-> "Failed to fetch documentation"]

\* C14: a query operation invokes the Index Builder at most once per call and
\* never when the artifact it checks is present; when the Index Builder reports
\* failure the operation returns the error payload at once, calling nothing
\* and reading nothing more.
C14_RebuildAtMostOnce ==
    /\ [](op # None /\ op.name \in RefRebuildingTools =>
            /\ RefFetchCount <= 1
            /\ RefFetched => ~RefArtifactPresent)
    /\ [][(/\ pc = "returned"
           /\ op.name \in RefRebuildingTools
           /\ ~Get(fetch_results, "success", FALSE))
          => /\ pc' = "done"
             /\ ret' = RefFetchFailedPayload
             /\ calls' = calls]_vars

\* listing all keywords on an empty cache invoked the Index Builder once, the
\* primary document could not be fetched, and the error payload was returned
C14_Witness ==
    /\ pc = "done"
    /\ op.name = "get_all_keywords"
    /\ RefFetchCount = 1
    /\ ~docs_file.exists
    /\ ret = [error |-> "Failed to fetch documentation"]

\* the files this run has downloaded
RefDownloaded ==
    {fetch_results.files_downloaded[k] : k \in 1..Len(fetch_results.files_downloaded)}

\* the fetch of the primary document succeeded: the document was downloaded
\* in this run, or the download was skipped because the document was cached
\* and the run was not forced
RefPrimaryFetched ==
    IF run_start.force_refresh \/ ~run_start.docs_cached
    THEN "RobotFrameworkUserGuide.html" \in RefDownloaded
    ELSE TRUE

\* C15: the success field of a rebuild report says whether the fetch of the
\* primary document succeeded, whatever happened to the libraries.
C15_SuccessIsPrimaryFetch ==
    pc = "returned" => (fetch_results.success <=> RefPrimaryFetched)

\* a run reports failure although it indexed a library's keywords, and so does
\* not depend on the libraries
C15_Witness ==
    /\ pc = "returned"
    /\ ~fetch_results.success
    /\ ~RefPrimaryFetched
    /\ \E n \in DOMAIN fetch_results.libraries : fetch_results.libraries[n].success

\* the tool answered from INDEX_FILE
RefAnsweredFromSections ==
    /\ pc = "done"
    /\ op.name = "search_rf_documentation"
    /\ "results" \in DOMAIN ret

\* the tool answered from KEYWORDS_INDEX
RefAnsweredFromKeywords ==
    /\ pc = "done"
    /\ op.name \in {"get_all_keywords", "get_keyword_documentation",
                    "check_keyword_availability"}
    /\ "error" \notin DOMAIN ret
    /\ keywords_index.exists

RefExtracted == parse_library_keywords("BuiltIn", File(html_content))

\* a failure record: success is false and there is no keyword mapping
RefFailureRecord(r) ==
    /\ "success" \in DOMAIN r
    /\ ~r.success
    /\ "error" \in DOMAIN r
    /\ "keywords" \notin DOMAIN r

\* C17: a text without the anchor gives a failure record and is not scanned;
\* a text in which no closing brace after the anchor returns the depth to 0
\* (closing braces inside a string literal, terminated or not, and after a
\* backslash not counted) is scanned to its end, no span is extracted and the
\* extractor returns a failure record.
C17_ScanFailures ==
    /\ scan_pc = "notfound" =>
          /\ RefAnchorStarts(html_content) = {}
          /\ i = 0 /\ start_pos = 0 /\ libdoc_json = <<>>
          /\ RefFailureRecord(RefExtracted)
    /\ scan_pc = "unterminated" =>
          /\ RefClosers(html_content, start_pos) = {}
          /\ i = Len(html_content) + 1
          /\ libdoc_json = <<>>
          /\ RefFailureRecord(RefExtracted)
    /\ (scan_pc # "search" /\ RefAnchorStarts(html_content) = {}) => scan_pc = "notfound"
    /\ (scan_pc \in {"loop", "found", "unterminated"}
          /\ RefClosers(html_content, start_pos) = {}) =>
          /\ scan_pc # "found"
          /\ RefFailureRecord(RefExtracted)

\* the scan reached the end of a text whose only closing braces after the
\* anchor lie inside a string literal that is never closed
C17_Witness ==
    /\ scan_pc = "unterminated"
    /\ html_content = LIBDOC \o <<"=", "{">> \o SampleBodyOpenString
    /\ RefExtracted = [success |-> FALSE, error |-> "Could not find end of libdoc JSON"]

\* check_keyword_availability has returned
RefAvailabilityDone == pc = "done" /\ op.name = "check_keyword_availability"

\* what get_keyword_documentation(name), no library given, returns in the same
\* call: after a fetch it made, the fetch succeeded exactly if the primary
\* document is in the cache
RefLookup ==
    get_keyword_documentation(op.keyword_name, "",
        IF RefFetched THEN [success |-> docs_file.exists] ELSE None)

\* C18: the availability check reports available exactly when the lookup of
\* the same name with no library does (an error payload counts as not
\* available); when available, its library and keyword name are those of the
\* lookup, and otherwise both are null.
C18_AvailabilityIsLookup ==
    RefAvailabilityDone =>
        /\ ret.keyword_searched = op.keyword_name
        /\ ret.available = Get(RefLookup, "available", FALSE)
        /\ IF ret.available
           THEN /\ ret.library = RefLookup.library
                /\ ret.keyword_actual_name = RefLookup.keyword
           ELSE /\ ret.library = None
                /\ ret.keyword_actual_name = None

\* "Run-Keyword" was checked and is available under its stored name
C18_Witness ==
    /\ RefAvailabilityDone
    /\ op.keyword_name = <<"R", "u", "n", "-", "K", "e", "y", "w", "o", "r", "d">>
    /\ ret.available
    /\ ret.keyword_actual_name = RefRunKeyword
    /\ ret.library = "BuiltIn"

\* the place of library n in the configured list
RefPlace(n) == CHOOSE k \in 1..Len(STANDARD_LIBRARIES) : STANDARD_LIBRARIES[k] = n

\* the libraries the loop has dealt with so far
RefProcessed == {STANDARD_LIBRARIES[k] : k \in 1..(lib_i - 1)}

\* one iteration of the loop handles the library at place lib_i and no other:
\* it requests the document if it is not cached or the run is forced, parses
\* the document if it is there afterwards, and goes on to the next place
RefLibraryStep ==
    LET n == STANDARD_LIBRARIES[lib_i]
        need == force_refresh \/ ~lib_files[n].exists
        made == SubSeq(calls', Len(calls) + 1, Len(calls')) IN
    /\ pc' = "libs"
    /\ lib_i' = lib_i + 1
    /\ \A m \in Libraries \ {n} : lib_files'[m] = lib_files[m]
    /\ requests' = IF need THEN requests + 1 ELSE requests
    /\ made = (IF need THEN <<<<"fetch_rf_documentation", "_download_file">>>> ELSE <<>>)
              \o (IF lib_files'[n].exists
                  THEN <<<<"fetch_rf_documentation", "_parse_library_keywords">>>>
                  ELSE <<>>)
    /\ DOMAIN fetch_results'.libraries \subseteq DOMAIN fetch_results.libraries \cup {n}
    /\ lib_files'[n].exists => n \in DOMAIN fetch_results'.libraries

\* C20: a rebuild handles the configured libraries one at a time in the
\* configured order, whatever happened to the libraries before: each iteration
\* attempts the next library, the keywords collected are in configured order,
\* the run returns only after the last library, and every rebuild that was
\* started returns a report.
C20_AllLibrariesInOrder ==
    /\ [](pc = "libs" =>
            /\ DOMAIN fetch_results.libraries \subseteq RefProcessed
            /\ \A j, k \in 1..Len(all_keywords) :
                  j < k => RefPlace(all_keywords[j].library)
                              < RefPlace(all_keywords[k].library))
    /\ [](pc = "returned" =>
            /\ RefProcessed = Libraries
            /\ "success" \in DOMAIN fetch_results)
    /\ [][(pc = "libs" /\ lib_i <= Len(STANDARD_LIBRARIES)) => RefLibraryStep]_vars
    /\ [][pc = "libs" /\ pc' = "returned" => lib_i = Len(STANDARD_LIBRARIES) + 1]_vars
    /\ (pc \in {"guide", "libs"}) ~> (pc = "returned")

\* a rebuild has returned its report: the first library's document could not
\* be fetched, and the second library was fetched and parsed all the same
C20_Witness ==
    /\ pc = "returned"
    /\ ~lib_files[STANDARD_LIBRARIES[1]].exists
    /\ STANDARD_LIBRARIES[1] \notin DOMAIN fetch_results.libraries
    /\ fetch_results.libraries[STANDARD_LIBRARIES[2]].success
    /\ Len(all_keywords) = 1

\* the number of keyword records in the library entries libs
RECURSIVE RefRecordCount(_)
RefRecordCount(libs) ==
    IF libs = <<>> THEN 0
    ELSE Cardinality({Head(libs).keywords[k].name : k \in 1..Len(Head(libs).keywords)})
            + RefRecordCount(Tail(libs))

\* this run has written the Keyword Index
RefIndexWritten == pc = "returned" /\ "keywords_index" \in DOMAIN fetch_results

\* C21: in every Keyword Index, total_keywords is the sum over its library
\* entries of the number of keyword records and total_libraries is the number
\* of library entries, no library twice; the entries of an index a run has
\* written are the libraries whose document was parsed with success in that
\* run, and the run's report carries the same two totals.
C21_IndexTotals ==
    /\ keywords_index.exists =>
          LET index == keywords_index.content IN
          /\ index.total_keywords = RefRecordCount(index.libraries)
          /\ index.total_libraries = Len(index.libraries)
          /\ index.total_libraries = Cardinality(RefIndexLibraries(keywords_index))
    /\ RefIndexWritten =>
          /\ RefIndexLibraries(keywords_index) = RefParsed
          /\ fetch_results.keywords_index.total_keywords
                = keywords_index.content.total_keywords
          /\ fetch_results.keywords_index.total_libraries
                = keywords_index.content.total_libraries

\* a run has written an index of two libraries whose total is the sum of two
\* non-empty keyword sets
C21_Witness ==
    /\ RefIndexWritten
    /\ keywords_index.content.total_libraries = 2
    /\ \A k \in 1..2 : Len(keywords_index.content.libraries[k].keywords) > 0
    /\ keywords_index.content.total_keywords
          = Len(keywords_index.content.libraries[1].keywords)
            + Len(keywords_index.content.libraries[2].keywords)

\* this step made a request that failed: a request was counted and no file
\* was added to the files downloaded
RefFetchFailedStep ==
    /\ requests' = requests + 1
    /\ Len(fetch_results'.files_downloaded) = Len(fetch_results.files_downloaded)

\* the forced fetch of the cached primary document fails: the document stays,
\* it is parsed into the Section Index of this run, and the fetch is reported
\* as failed
RefPrimaryKept ==
    (pc = "guide" /\ force_refresh /\ docs_file.exists /\ RefFetchFailedStep) =>
        /\ docs_file' = docs_file
        /\ index_file' = File(SectionIndex(ParseSections(docs_file.content), now))
        /\ fetch_results'.indexing.success
        /\ ~fetch_results'.user_guide.success
        /\ "error" \in DOMAIN fetch_results'.user_guide

\* the forced fetch of a cached library document fails: the document stays
\* and is the one parsed, its keywords are collected if it parses
RefLibraryKept ==
    (pc = "libs" /\ lib_i <= Len(STANDARD_LIBRARIES) /\ force_refresh
        /\ lib_files[STANDARD_LIBRARIES[lib_i]].exists /\ RefFetchFailedStep) =>
        LET n == STANDARD_LIBRARIES[lib_i]
            parsed == parse_library_keywords(n, lib_files[n]) IN
        /\ lib_files' = lib_files
        /\ fetch_results'.libraries[n].success = Get(parsed, "success", FALSE)
        /\ Get(parsed, "success", FALSE) =>
              /\ all_keywords' = Append(all_keywords,
                                        [library |-> n, keywords |-> parsed.keywords])
              /\ fetch_results'.libraries[n].total_keywords = Len(parsed.keywords)

\* C22: a failed fetch leaves the cache slot as it was; in a forced rebuild
\* the document cached before a failed fetch is still there and is the one
\* parsed in that run, and the fetch is reported as failed.
C22_FailedFetchKeepsSlot == [][RefPrimaryKept /\ RefLibraryKept]_vars

\* a forced rebuild over a full cache has returned: the fetch of the primary
\* document and that of the first library failed, the Section Index was
\* written anew from the cached document and the first library's keywords,
\* parsed from its cached document, are in the Keyword Index of this run
C22_Witness ==
    /\ pc = "returned"
    /\ run_start.force_refresh /\ run_start.cached
    /\ Len(fetch_results.files_downloaded) = Len(STANDARD_LIBRARIES) - 1
    /\ ~fetch_results.user_guide.success
    /\ docs_file.exists
    /\ index_file.content.parsed_at > run_start.index_file.content.parsed_at
    /\ lib_files[STANDARD_LIBRARIES[1]] = File(LibDocOf(STANDARD_LIBRARIES[1]))
    /\ requests = Len(STANDARD_LIBRARIES) + 1
    /\ all_keywords[1].library = STANDARD_LIBRARIES[1]
    /\ all_keywords[1].keywords
          = parse_library_keywords(STANDARD_LIBRARIES[1],
                                   File(LibDocOf(STANDARD_LIBRARIES[1]))).keywords
    /\ Len(all_keywords) = 1

\* C23: the scan starts on the opening brace of the anchor with depth 0, not in
\* a string and no escape pending; once that brace is consumed the depth is at
\* least 1 until the scan stops and it is never negative; the scan stops at
\* the first position where the depth is 0 again, and the span extracted
\* begins with "{" and ends with "}".
C23_ScannerState ==
    /\ depth >= 0
    /\ (scan_pc = "loop" /\ i = start_pos) =>
          /\ html_content[i] = "{"
          /\ depth = 0 /\ ~in_string /\ ~escape
    /\ (scan_pc \in {"loop", "unterminated"} /\ i > start_pos) =>
          /\ depth >= 1
          /\ depth = RefDepth(html_content, start_pos, i - 1)
          /\ \A k \in (start_pos + 1)..(i - 1) :
                ~(RefCounted(html_content, start_pos, k)
                    /\ RefDepth(html_content, start_pos, k) = 0)
    /\ scan_pc = "found" =>
          /\ depth = 0
          /\ i > start_pos
          /\ \A k \in start_pos..(i - 1) : RefDepth(html_content, start_pos, k) >= 1
          /\ RefDepth(html_content, start_pos, i) = 0
          /\ Head(libdoc_json) = "{"
          /\ libdoc_json[Len(libdoc_json)] = "}"
          /\ Len(libdoc_json) = i - start_pos + 1

\* the scan of {"k":{"s":"}{\""}}x} has stopped on the closing brace of the
\* outer object, past a nested object and braces inside a string
C23_Witness ==
    /\ scan_pc = "found"
    /\ html_content = LIBDOC \o <<"=", "{">> \o SampleBodyNested
    /\ libdoc_json = <<"{">> \o SubSeq(SampleBodyNested, 1, Len(SampleBodyNested) - 2)
    /\ depth = 0

====
